---- MODULE Spec2Model ----
(***************************************************************************)
(* Model of the services of the Aztec monitor bot.                         *)
(* src/services/node_service.py: the version cache, the paginated registry *)
(* fetch, the tag filter, the node update state machine (Spec) and the     *)
(* sync comparison (SpecSync).                                             *)
(* src/services/network_service.py: the RPC health check with its blob     *)
(* sampling (SpecHealth) and the blob classification (SpecClassify).       *)
(*                                                                         *)
(* Strings the code inspects character by character (tag names, version    *)
(* strings) are sequences of one-character strings.                        *)
(***************************************************************************)
EXTENDS Integers, Sequences, FiniteSets, TLC

VARIABLES now, version_cache, fetch, upd, cleared, rpc, fmt, sync, ver, mon, chat

vars == <<now, version_cache, fetch, upd, cleared, rpc, fmt, sync, ver, mon, chat>>

\* the state of the version services
node_vars == <<now, version_cache, fetch, upd, cleared>>

(***************************************************************************)
(* Program constants                                                       *)
(***************************************************************************)
CACHE_EXPIRY == 300

MIN_NODE_VERSION == <<"0", ".", "8", "7", ".", "0">>

max_pages == 50

version_cap == 100

(***************************************************************************)
(* Bounds of the exploration                                               *)
(***************************************************************************)
\* the last instant of the clock
MaxClock == 300

\* injected request failures (exception, non-200) happen on pages 1..MaxFaultPage
MaxFaultPage == 2

\* tags per page of the registry "wide"
WidePageSize == 50

\* the instants the clock takes: the start, the two ages around the expiry
\* of an entry cached at the start, and the last instant
Times == {t \in 0..MaxClock : t \in {0, CACHE_EXPIRY - 1, CACHE_EXPIRY} \/ t = MaxClock}

\* the tasks (coroutines) that can call the service; SeqTasks are the ones
\* that run in the sequential specification
Tasks == {1, 2}

SeqTasks == {1}

\* Python's None, distinct from every string
None == <<"None">>

(***************************************************************************)
(* Characters and strings                                                  *)
(***************************************************************************)
DigitChars == <<"0", "1", "2", "3", "4", "5", "6", "7", "8", "9">>

Digits == {DigitChars[i] : i \in 1..10}

DigitVal(c) == (CHOOSE i \in 1..10 : DigitChars[i] = c) - 1

UpperChars == <<"A", "B", "C", "D", "E", "F", "G", "H", "I", "J", "K", "L", "M",
                "N", "O", "P", "Q", "R", "S", "T", "U", "V", "W", "X", "Y", "Z">>

LowerChars == <<"a", "b", "c", "d", "e", "f", "g", "h", "i", "j", "k", "l", "m",
                "n", "o", "p", "q", "r", "s", "t", "u", "v", "w", "x", "y", "z">>

\* str.lower() on one character
LowerChar(c) ==
    IF \E i \in 1..26 : UpperChars[i] = c
    THEN LowerChars[CHOOSE i \in 1..26 : UpperChars[i] = c]
    ELSE c

\* str.lower()
Lower(s) == [i \in 1..Len(s) |-> LowerChar(s[i])]

\* k in s
Contains(s, k) ==
    \E i \in 0..(Len(s) - Len(k)) : SubSeq(s, i + 1, i + Len(k)) = k

Whitespace == {" ", "\n", "\t"}

Front(s) == SubSeq(s, 1, Len(s) - 1)

\* decimal value of a non-empty sequence of digits
RECURSIVE NumVal(_)
NumVal(s) ==
    IF Len(s) = 0 THEN 0 ELSE 10 * NumVal(Front(s)) + DigitVal(s[Len(s)])

\* decimal digits of a natural number
RECURSIVE DigitsOf(_)
DigitsOf(n) ==
    IF n < 10 THEN <<DigitChars[n + 1]>>
    ELSE DigitsOf(n \div 10) \o <<DigitChars[(n % 10) + 1]>>

\* s is digits '.' digits '.' digits, each group non-empty
IsThreeGroups(s) ==
    LET dots == {i \in 1..Len(s) : s[i] = "."}
    IN  /\ Cardinality(dots) = 2
        /\ \A i \in (1..Len(s)) \ dots : s[i] \in Digits
        /\ 1 \notin dots
        /\ Len(s) \notin dots
        /\ \A i \in dots : i + 1 \notin dots

\* re.match(r'^\d+\.\d+\.\d+$', s): in Python '$' matches at the end of
\* the string and also just before a newline that ends the string
MatchesVersionPattern(s) ==
    \/ IsThreeGroups(s)
    \/ /\ Len(s) > 0
       /\ s[Len(s)] = "\n"
       /\ IsThreeGroups(Front(s))

(***************************************************************************)
(* packaging.version.parse, for the release-only versions the code hands   *)
(* it: optional surrounding whitespace, optional leading v, dot-separated  *)
(* numbers.  The comparison key drops trailing zero components.            *)
(***************************************************************************)
RECURSIVE StripWs(_)
StripWs(s) ==
    IF Len(s) > 0 /\ s[1] \in Whitespace THEN StripWs(Tail(s))
    ELSE IF Len(s) > 0 /\ s[Len(s)] \in Whitespace THEN StripWs(Front(s))
    ELSE s

IsRelease(b) ==
    /\ Len(b) > 0
    /\ \A i \in 1..Len(b) : b[i] \in Digits \cup {"."}
    /\ b[1] # "."
    /\ b[Len(b)] # "."
    /\ \A i \in 1..(Len(b) - 1) : ~(b[i] = "." /\ b[i + 1] = ".")

RECURSIVE ReleaseOf(_)
ReleaseOf(b) ==
    LET dots == {i \in 1..Len(b) : b[i] = "."}
    IN  IF dots = {} THEN <<NumVal(b)>>
        ELSE LET d == CHOOSE i \in dots : \A j \in dots : j <= i
             IN  ReleaseOf(SubSeq(b, 1, d - 1)) \o <<NumVal(SubSeq(b, d + 1, Len(b)))>>

RECURSIVE TrimZeros(_)
TrimZeros(r) ==
    IF Len(r) > 0 /\ r[Len(r)] = 0 THEN TrimZeros(Front(r)) ELSE r

parse_version(s) ==
    LET b == StripWs(s)
        c == IF Len(b) > 0 /\ LowerChar(b[1]) = "v" THEN Tail(b) ELSE b
    IN  IF IsRelease(c)
        THEN [valid |-> TRUE, release |-> TrimZeros(ReleaseOf(c))]
        ELSE [valid |-> FALSE, release |-> <<>>]

\* tuple comparison a < b of two release keys
ReleaseLess(a, b) ==
    \E i \in 1..Len(b) :
        /\ \A j \in 1..(i - 1) : j <= Len(a) /\ a[j] = b[j]
        /\ \/ i > Len(a)
           \/ i <= Len(a) /\ a[i] < b[i]

\* parse_version(x) < parse_version(y)
VersionLess(x, y) == ReleaseLess(parse_version(x).release, parse_version(y).release)

\* the two versions compared as strings
VersionEqualAsStrings(x, y) == x = y

\* parse_version(x) == parse_version(y)
VersionEqual(x, y) ==
    /\ parse_version(x).valid
    /\ parse_version(y).valid
    /\ parse_version(x).release = parse_version(y).release

(***************************************************************************)
(* NodeService._extract_valid_versions                                     *)
(***************************************************************************)
Keywords == { <<"n", "i", "g", "h", "t", "l", "y">>,
              <<"d", "e", "v">>,
              <<"b", "e", "t", "a">>,
              <<"a", "l", "p", "h", "a">>,
              <<"r", "c">>,
              <<"l", "a", "t", "e", "s", "t">> }

HasKeyword(tag_name) == \E k \in Keywords : Contains(Lower(tag_name), k)

AtLeastMin(tag_name) ==
    /\ parse_version(tag_name).valid
    /\ ~VersionLess(tag_name, MIN_NODE_VERSION)

ValidTag(tag_name) ==
    /\ ~HasKeyword(tag_name)
    /\ MatchesVersionPattern(tag_name)
    /\ AtLeastMin(tag_name)

_extract_valid_versions(tags) == SelectSeq(tags, ValidTag)

(***************************************************************************)
(* all_versions.sort(key=parse_version, reverse=True): a stable sort,      *)
(* entries with equal keys keep their arrival order                        *)
(***************************************************************************)
\* the sort without reverse=True
SortVersionsAscending(s) ==
    LET n == Len(s)
        key == SubSeq([i \in 1..n |-> parse_version(s[i]).release], 1, n)
        place == SubSeq([i \in 1..n |->
                           Cardinality({j \in 1..n : ReleaseLess(key[j], key[i])})
                           + Cardinality({j \in 1..i : key[j] = key[i]})], 1, n)
    IN  [k \in 1..n |-> s[CHOOSE i \in 1..n : place[i] = k]]

SortVersions(s) ==
    LET n == Len(s)
        key == SubSeq([i \in 1..n |-> parse_version(s[i]).release], 1, n)
        \* place of entry i: after every entry with a greater key and after
        \* the earlier entries with an equal key
        place == SubSeq([i \in 1..n |->
                           Cardinality({j \in 1..n : ReleaseLess(key[i], key[j])})
                           + Cardinality({j \in 1..i : key[j] = key[i]})], 1, n)
    IN  [k \in 1..n |-> s[CHOOSE i \in 1..n : place[i] = k]]

(***************************************************************************)
(* The registry: what page p of the tag listing answers.  A tag is         *)
(* modelled by its name (a tag without a name reads as the empty name).    *)
(***************************************************************************)
V_0_87_0 == <<"0", ".", "8", "7", ".", "0">>
V_0_87_0_beta == <<"0", ".", "8", "7", ".", "0", "-", "b", "e", "t", "a">>
V_0_86_9 == <<"0", ".", "8", "6", ".", "9">>
V_0_88_1_rc1 == <<"0", ".", "8", "8", ".", "1", "-", "r", "c", "1">>
V_0_90_0 == <<"0", ".", "9", "0", ".", "0">>
V_0_100_0 == <<"0", ".", "1", "0", "0", ".", "0">>
V_0_087_0 == <<"0", ".", "0", "8", "7", ".", "0">>
V_0_87_0_nl == <<"0", ".", "8", "7", ".", "0", "\n">>
V_0_91_0_Dev == <<"0", ".", "9", "1", ".", "0", "-", "D", "e", "v">>
V_LATEST == <<"L", "A", "T", "E", "S", "T">>
V_1_2 == <<"1", ".", "2">>
V_v0_90_0 == <<"v", "0", ".", "9", "0", ".", "0">>
V_1_2_3_4 == <<"1", ".", "2", ".", "3", ".", "4">>
V_empty == <<>>

ExampleTags == <<V_0_87_0, V_0_87_0_beta, V_0_86_9, V_0_88_1_rc1, V_0_90_0>>

OddTags == <<V_0_087_0, V_0_87_0_nl, V_LATEST, V_0_91_0_Dev, V_1_2,
             V_v0_90_0, V_1_2_3_4, V_empty, V_0_86_9>>

ShortRegistries == {"example", "dups", "odd"}

Registries == ShortRegistries \cup {"deep", "wide"}

Registry(r, p) ==
    CASE r = "example" ->
            IF p = 1 THEN [tags |-> ExampleTags, next |-> FALSE]
            ELSE [tags |-> <<>>, next |-> FALSE]
      [] r = "dups" ->
            IF p = 1 THEN [tags |-> <<V_0_90_0, V_0_87_0>>, next |-> TRUE]
            ELSE [tags |-> <<V_0_87_0, V_0_100_0>>, next |-> FALSE]
      [] r = "odd" ->
            IF p = 1 THEN [tags |-> OddTags, next |-> TRUE]
            ELSE [tags |-> <<>>, next |-> TRUE]
      [] r = "deep" ->
            [tags |-> << <<"0", ".">> \o DigitsOf(86 + p) \o <<".", "0">> >>,
             next |-> TRUE]
      [] r = "wide" ->
            [tags |-> [i \in 1..WidePageSize |->
                         <<"1", ".">> \o DigitsOf(p) \o <<".">> \o DigitsOf(i - 1)],
             next |-> TRUE]

(***************************************************************************)
(* State                                                                   *)
(*   now            the wall clock (time.time())                           *)
(*   version_cache  NodeService.version_cache, a dict: either empty or     *)
(*                  with the keys versions and timestamp                   *)
(*   fetch[t]       the fetch_available_versions call of task t: its       *)
(*                  position and its local variables                       *)
(*   upd[t]         the update_node_version call of task t                 *)
(*   cleared        clear_version_cache ran since the last call of         *)
(*                  fetch_available_versions started                       *)
(***************************************************************************)
EmptyCache == <<>>

HasVersions(cache) == "versions" \in DOMAIN cache

IdleFetch ==
    [pc |-> "idle", use_cache |-> FALSE, current_time |-> 0, registry |-> "none",
     page |-> 0, all_versions |-> <<>>, tags |-> <<>>, page_versions |-> <<>>,
     next |-> FALSE, requests |-> 0, result |-> <<>>, outcome |-> "none",
     fault |-> "none"]

IdleUpdate ==
    [pc |-> "idle", target_version |-> None, current_version |-> None,
     new_version |-> None, success |-> FALSE, message |-> "",
     command_output |-> "", commands |-> 0, probes |-> 0,
     result_new_version |-> None, command_success |-> FALSE, steps |-> <<>>]

(***************************************************************************)
(* State of the network checks (src/services/network_service.py) and of    *)
(* the sync comparison                                                     *)
(*   rpc    one check_rpc_health call: its position, the report it builds, *)
(*          the locals of _check_blob_sidecars and the responses it got    *)
(*          (exec_response, exec_alone, version_response, head_response,   *)
(*          probed, seen, escaped)                                         *)
(*   fmt    one classification of a blob success rate                      *)
(*   sync   one get_sync_status call                                       *)
(*   ver    one get_node_current_version call                              *)
(*   mon    AztecMonitor's monitoring flag and its monitor threads         *)
(*   chat   the Telegram handlers: the awaiting flags of each user and     *)
(*          what the last update made the bot do                           *)
(* An optional integer is <<>> for None and <<n>> for the integer n; an    *)
(* HTTP status is the string of its digits.                                *)
(***************************************************************************)
NoInt == <<>>

Some(n) == <<n>>

\* line 296
total_slots == 10

\* a rate is a whole number of tenths of a percent
Percent(p) == p * 10

\* the longest "data" list of a blob sidecar response
MaxBlobs == 2

\* the probe outcomes seen by one blob sampling: lists[n] answers 200 with a
\* list of n blobs, notfound answers 404, other answers with another status,
\* raised requests that failed
NoneSeen ==
    [lists |-> [n \in 0..MaxBlobs |-> 0], notfound |-> 0, other |-> 0, raised |-> 0]

NoResponse == [status |-> "none", has_result |-> FALSE, result |-> None]

\* lines 219-227: the report before any check, and the call not started
IdleRpc ==
    [pc |-> "idle", beacon_rpc |-> FALSE, success |-> FALSE, message |-> <<>>,
     exec_status |-> [healthy |-> FALSE, block_number |-> NoInt, http_code |-> "None"],
     beacon_status |-> [healthy |-> FALSE, version |-> None, http_code |-> "None",
                        head_slot |-> NoInt],
     blob_status |-> [success_rate |-> 0, total_blobs |-> 0, errors |-> 0],
     i |-> 0, slots_with_blobs |-> 0, total_blobs |-> 0, errors |-> 0,
     exec_response |-> NoResponse, exec_alone |-> <<>>,
     version_response |-> NoResponse, head_response |-> NoResponse,
     probed |-> <<>>, seen |-> NoneSeen, escaped |-> FALSE]

IdleFormat == [success_rate |-> 0, blob_status_text |-> "none"]

\* settings.py
DEFAULT_LOCAL_RPC_PORT == 8080

\* the reply of the port input handler before get_sync_status returned
NoText == [kind |-> "none", progress |-> "none", percent |-> 0]

\* no get_sync_status call yet; result is the dict returned, <<>> before;
\* first is the side whose fetch ended first; text is what the handler that
\* made the call replies (bot_handlers.py lines 172-185)
IdleSync ==
    [pc |-> "idle", local_port |-> DEFAULT_LOCAL_RPC_PORT,
     local_response |-> NoResponse, remote_response |-> NoResponse,
     local_block |-> NoInt, remote_block |-> NoInt, synced |-> FALSE,
     result |-> <<>>, first |-> "none", text |-> NoText]

\* get_node_current_version not called yet
IdleVersion ==
    [pc |-> "idle", path |-> 0, aztec_cmd |-> 0, flag |-> 0, probed |-> <<>>,
     flags_tried |-> <<>>, outputs |-> <<>>, result |-> None]

\* AztecMonitor.__init__, and a caller that is in neither method
IdleMonitor ==
    [monitoring_active |-> FALSE, monitor_thread |-> 0, threads |-> <<>>,
     caller |-> "idle", join |-> 0, then_start |-> 0]

\* Config.AUTHORIZED_USERS, read from the environment
AUTHORIZED_USERS == {1}

\* the users that send updates: one authorized, one not
Users == {1, 2}

\* user_data.get of a key never stored is falsy
NoFlags ==
    [awaiting_port |-> FALSE, awaiting_monitor_interval |-> FALSE,
     awaiting_rpc_check |-> FALSE, awaiting_port_check |-> FALSE]

\* no update received yet
NoUpdate ==
    [user |-> 0, entry |-> "none", handler |-> "none", calls |-> {},
     reply |-> "none"]

\* empty user_data for every user
IdleChat ==
    [user_data |-> [u \in Users |-> NoFlags],
     prompt |-> [u \in Users |-> "none"],
     last |-> NoUpdate]

Init ==
    /\ now = 0
    /\ version_cache = EmptyCache
    /\ fetch = [t \in Tasks |-> IdleFetch]
    /\ upd = [t \in Tasks |-> IdleUpdate]
    /\ cleared = FALSE
    /\ rpc = IdleRpc
    /\ fmt = IdleFormat
    /\ sync = IdleSync
    /\ ver = IdleVersion
    /\ mon = IdleMonitor
    /\ chat = IdleChat

(***************************************************************************)
(* NodeService.fetch_available_versions                                    *)
(***************************************************************************)
\* the cache test with the boundary age counted as fresh
CacheFreshInclusive(cache, current_time) ==
    /\ "versions" \in DOMAIN cache
    /\ current_time - cache.timestamp <= CACHE_EXPIRY

\* the cache test of lines 77-79
CacheFresh(cache, current_time) ==
    /\ HasVersions(cache)
    /\ current_time - (IF "timestamp" \in DOMAIN cache THEN cache.timestamp ELSE 0)
          < CACHE_EXPIRY

\* a call that finds another call in flight takes over its list
EnterFetchJoinsInFlight(use_cache, r) ==
    IF use_cache /\ CacheFresh(version_cache, now)
    THEN [IdleFetch EXCEPT !.pc = "done", !.use_cache = use_cache,
                           !.current_time = now,
                           !.result = version_cache.versions,
                           !.outcome = "cache_hit"]
    ELSE IF \E o \in Tasks : fetch[o].pc = "request"
    THEN [IdleFetch EXCEPT !.pc = "done", !.use_cache = use_cache,
                           !.current_time = now,
                           !.result = fetch[CHOOSE o \in Tasks : fetch[o].pc = "request"].all_versions,
                           !.outcome = "joined"]
    ELSE [IdleFetch EXCEPT !.pc = "request", !.use_cache = use_cache,
                           !.current_time = now, !.registry = r, !.page = 1]

\* lines 76-92: the call up to its first registry request
EnterFetch(use_cache, r) ==
    IF use_cache /\ CacheFresh(version_cache, now)
    THEN [IdleFetch EXCEPT !.pc = "done", !.use_cache = use_cache,
                           !.current_time = now,
                           !.result = version_cache.versions,
                           !.outcome = "cache_hit"]
    ELSE [IdleFetch EXCEPT !.pc = "request", !.use_cache = use_cache,
                           !.current_time = now, !.registry = r, !.page = 1]

\* line 108
ReachedCap(n) == n >= version_cap

\* the loop test letting one page too many through
MorePagesOffByOne(page) == page <= max_pages + 1

\* line 92
MorePages(page) == page <= max_pages

\* lines 111-117: sort, replace the cache, return
Finish(f) ==
    LET sorted == SortVersions(f.all_versions)
    IN  [f EXCEPT !.pc = "done", !.all_versions = sorted, !.result = sorted,
                  !.outcome = "fetched"]

\* lines 98-109: one 200 response with body data
AfterPage(f, data) ==
    IF data.tags = <<>>
    THEN Finish([f EXCEPT !.tags = <<>>, !.next = data.next])
    ELSE LET pv == _extract_valid_versions(data.tags)
             g  == [f EXCEPT !.tags = data.tags, !.next = data.next,
                             !.page_versions = pv,
                             !.all_versions = f.all_versions \o pv]
         IN  IF ~data.next THEN Finish(g)
             ELSE LET h == [g EXCEPT !.page = g.page + 1]
                  IN  IF ReachedCap(Len(h.all_versions)) THEN Finish(h)
                      ELSE IF MorePages(h.page) THEN h
                      ELSE Finish(h)

\* lines 118-124: the exception path
Fallback(f, cache) ==
    [f EXCEPT !.pc = "done",
              !.result = IF HasVersions(cache) THEN cache.versions ELSE <<>>,
              !.outcome = IF HasVersions(cache) THEN "fallback_cache"
                          ELSE "fallback_empty"]

\* the cache written without the time of the fetch
CacheAfterUnstamped(f, cache) ==
    IF f.outcome = "fetched"
    THEN [versions |-> f.result, timestamp |-> 0]
    ELSE cache

\* the cache written on every return of a remote fetch
CacheAfterAnyReturn(f, cache) ==
    [versions |-> f.result, timestamp |-> f.current_time]

\* the cache after the call reached a return: only the return of line 117
\* follows the assignment of lines 112-115
CacheAfter(f, cache) ==
    IF f.outcome = "fetched"
    THEN [versions |-> f.result, timestamp |-> f.current_time]
    ELSE cache

Callable(t) == fetch[t].pc \in {"idle", "done"} /\ upd[t].pc \in {"idle", "done"}

\* a direct call fetch_available_versions(use_cache)
FetchCall(t, use_cache, r) ==
    /\ Callable(t)
    /\ fetch' = [fetch EXCEPT ![t] = EnterFetch(use_cache, r)]
    /\ upd' = [upd EXCEPT ![t] = IdleUpdate]
    /\ cleared' = FALSE
    /\ UNCHANGED <<now, version_cache, rpc, fmt, sync, ver, mon, chat>>

\* session.get / response.json() raises: connection error, timeout,
\* body that is not JSON or not of the expected shape
FetchPageRaises(t) ==
    /\ fetch[t].pc = "request"
    /\ fetch[t].page <= MaxFaultPage
    /\ LET f == Fallback([fetch[t] EXCEPT !.requests = @ + 1,
                                          !.fault = "exception"],
                         version_cache)
       IN  /\ fetch' = [fetch EXCEPT ![t] = f]
           /\ version_cache' = CacheAfter(f, version_cache)
    /\ UNCHANGED <<now, upd, cleared, rpc, fmt, sync, ver, mon, chat>>

\* the registry answers with a status other than 200 (lines 95-97)
FetchPageStatus(t) ==
    /\ fetch[t].pc = "request"
    /\ fetch[t].page <= MaxFaultPage
    /\ LET f == Finish([fetch[t] EXCEPT !.requests = @ + 1, !.fault = "status"])
       IN  /\ fetch' = [fetch EXCEPT ![t] = f]
           /\ version_cache' = CacheAfter(f, version_cache)
    /\ UNCHANGED <<now, upd, cleared, rpc, fmt, sync, ver, mon, chat>>

\* the registry answers 200 with a page of tags
FetchPageOk(t) ==
    /\ fetch[t].pc = "request"
    /\ LET f == AfterPage([fetch[t] EXCEPT !.requests = @ + 1],
                          Registry(fetch[t].registry, fetch[t].page))
       IN  /\ fetch' = [fetch EXCEPT ![t] = f]
           /\ version_cache' = CacheAfter(f, version_cache)
    /\ UNCHANGED <<now, upd, cleared, rpc, fmt, sync, ver, mon, chat>>

(***************************************************************************)
(* NodeService.update_node_version                                         *)
(***************************************************************************)
\* what get_node_current_version can return: None or a three-group version
ProbeResults == {None, V_0_87_0, V_0_90_0}

Targets == {V_0_90_0, V_0_087_0, V_0_87_0_nl, V_v0_90_0}

\* combined output of the upgrade command
CommandOutputs == {"", "aztec-up output"}

Elements(list) == {list[i] : i \in 1..Len(list)}

\* lines 171-172: parse_version raises InvalidVersion on a string that is no
\* version, which the handler of lines 222-225 turns into a failed result
ParseRaises(target_version, current_version) ==
    \/ ~parse_version(current_version).valid
    \/ ~parse_version(target_version).valid

\* the rejection of a malformed target returned without a message
UpdateCallSilentReject(t, target_version, current_version, r) ==
    /\ Callable(t)
    /\ LET u == [IdleUpdate EXCEPT !.target_version = target_version,
                                   !.current_version = current_version,
                                   !.probes = 1,
                                   !.result_new_version = target_version,
                                   !.steps = <<"resolve", "validate">>]
       IN  IF ~MatchesVersionPattern(target_version)
           THEN /\ upd' = [upd EXCEPT ![t] = [u EXCEPT !.pc = "done"]]
                /\ UNCHANGED <<fetch, cleared>>
           ELSE /\ upd' = [upd EXCEPT ![t] = [u EXCEPT !.pc = "fetching",
                                                       !.steps = Append(@, "fetch")]]
                /\ fetch' = [fetch EXCEPT ![t] = EnterFetch(TRUE, r)]
                /\ cleared' = FALSE
    /\ UNCHANGED <<now, version_cache, rpc, fmt, sync, ver, mon, chat>>

\* lines 147-163: resolve the current version, check the format, start the
\* fetch of the available versions
UpdateCall(t, target_version, current_version, r) ==
    /\ Callable(t)
    /\ LET u == [IdleUpdate EXCEPT !.target_version = target_version,
                                   !.current_version = current_version,
                                   !.probes = 1,
                                   !.result_new_version = target_version,
                                   !.steps = <<"resolve", "validate">>]
       IN  IF ~MatchesVersionPattern(target_version)
           THEN /\ upd' = [upd EXCEPT ![t] = [u EXCEPT !.pc = "done",
                                                       !.message = "invalid_format"]]
                /\ UNCHANGED <<fetch, cleared>>
           ELSE /\ upd' = [upd EXCEPT ![t] = [u EXCEPT !.pc = "fetching",
                                                       !.steps = Append(@, "fetch")]]
                /\ fetch' = [fetch EXCEPT ![t] = EnterFetch(TRUE, r)]
                /\ cleared' = FALSE
    /\ UNCHANGED <<now, version_cache, rpc, fmt, sync, ver, mon, chat>>

\* lines 164-180: the fetch returned; membership, comparison with the
\* current version, start of the upgrade command
UpdateAfterFetch(t) ==
    /\ upd[t].pc = "fetching"
    /\ fetch[t].pc = "done"
    /\ LET u == [upd[t] EXCEPT !.steps = Append(@, "compare")]
           available_versions == fetch[t].result
       IN  upd' = [upd EXCEPT ![t] =
                IF u.target_version \notin Elements(available_versions)
                THEN [upd[t] EXCEPT !.pc = "done", !.message = "not_found"]
                ELSE IF /\ u.current_version # None
                        /\ ParseRaises(u.target_version, u.current_version)
                THEN [u EXCEPT !.pc = "done", !.message = "unexpected_error"]
                ELSE IF /\ u.current_version # None
                        /\ VersionEqual(u.target_version, u.current_version)
                THEN [u EXCEPT !.pc = "done", !.message = "already_current",
                               !.success = TRUE]
                ELSE [u EXCEPT !.pc = "command", !.commands = @ + 1,
                               !.steps = Append(@, "command")]]
    /\ UNCHANGED <<now, version_cache, fetch, cleared, rpc, fmt, sync, ver, mon, chat>>

\* the settle delay and the second probe entered whatever the command reported
UpdateCommandDoneAlwaysSettles(t, ok, output) ==
    /\ upd[t].pc = "command"
    /\ upd' = [upd EXCEPT ![t] =
                [@ EXCEPT !.pc = "settle", !.command_output = output,
                          !.command_success = ok,
                          !.steps = Append(@, "settle")]]
    /\ UNCHANGED <<now, version_cache, fetch, cleared, rpc, fmt, sync, ver, mon, chat>>

\* lines 180-184, 208-221: run_command returned (ok, output); on success the
\* settle delay of line 184 starts
UpdateCommandDone(t, ok, output) ==
    /\ upd[t].pc = "command"
    /\ upd' = [upd EXCEPT ![t] =
                IF ok
                THEN [@ EXCEPT !.pc = "settle", !.command_output = output,
                               !.command_success = TRUE,
                               !.steps = Append(@, "settle")]
                ELSE [@ EXCEPT !.pc = "done", !.command_output = output,
                               !.message = "command_failed"]]
    /\ UNCHANGED <<now, version_cache, fetch, cleared, rpc, fmt, sync, ver, mon, chat>>

\* any resolved version taken as confirmation of the update
VersionResolved(new_version, target_version) == new_version # None

\* line 186
VersionConfirmed(new_version, target_version) == new_version = target_version

\* lines 185-207, 221: the settle delay is over, resolve the version again
UpdateVerify(t, new_version) ==
    /\ upd[t].pc = "settle"
    /\ upd' = [upd EXCEPT ![t] =
                IF VersionConfirmed(new_version, @.target_version)
                THEN [@ EXCEPT !.pc = "done", !.new_version = new_version,
                               !.probes = @ + 1, !.success = TRUE,
                               !.message = "updated",
                               !.steps = Append(@, "re_resolve")]
                ELSE [@ EXCEPT !.pc = "done", !.new_version = new_version,
                               !.probes = @ + 1, !.message = "mismatch",
                               !.steps = Append(@, "re_resolve")]]
    /\ UNCHANGED <<now, version_cache, fetch, cleared, rpc, fmt, sync, ver, mon, chat>>

\* NodeService.clear_version_cache
ClearCache ==
    /\ version_cache' = EmptyCache
    /\ cleared' = TRUE
    /\ UNCHANGED <<now, fetch, upd, rpc, fmt, sync, ver, mon, chat>>

\* time passes
Tick ==
    /\ \E t \in Times : t > now /\ now' = t
    /\ UNCHANGED <<version_cache, fetch, upd, cleared, rpc, fmt, sync, ver, mon, chat>>

Next ==
    \/ \E t \in SeqTasks, use_cache \in BOOLEAN, r \in Registries : FetchCall(t, use_cache, r)
    \/ \E t \in SeqTasks : FetchPageRaises(t)
    \/ \E t \in SeqTasks : FetchPageStatus(t)
    \/ \E t \in SeqTasks : FetchPageOk(t)
    \/ \E t \in SeqTasks, target \in Targets, cur \in ProbeResults, r \in ShortRegistries :
          UpdateCall(t, target, cur, r)
    \/ \E t \in SeqTasks : UpdateAfterFetch(t)
    \/ \E t \in SeqTasks, ok \in BOOLEAN, output \in CommandOutputs :
          UpdateCommandDone(t, ok, output)
    \/ \E t \in SeqTasks, nv \in ProbeResults : UpdateVerify(t, nv)
    \/ ClearCache
    \/ Tick

Spec == Init /\ [][Next]_vars

(***************************************************************************)
(* Two overlapping calls of fetch_available_versions on one event loop     *)
(***************************************************************************)
\* what the registry holds at the two calls
OverlapRegistries == {"example", "dups"}

NextOverlap ==
    \/ \E t \in Tasks, use_cache \in BOOLEAN, r \in OverlapRegistries : FetchCall(t, use_cache, r)
    \/ \E t \in Tasks : FetchPageRaises(t)
    \/ \E t \in Tasks : FetchPageStatus(t)
    \/ \E t \in Tasks : FetchPageOk(t)
    \/ Tick

SpecOverlap == Init /\ [][NextOverlap]_vars

(***************************************************************************)
(* NetworkService.check_rpc_health                                         *)
(***************************************************************************)
HexLetters == <<"a", "b", "c", "d", "e", "f">>

IsHexDigit(c) == c \in Digits \/ \E k \in 1..6 : LowerChar(c) = HexLetters[k]

HexDigitVal(c) ==
    IF c \in Digits THEN DigitVal(c)
    ELSE 9 + (CHOOSE k \in 1..6 : LowerChar(c) = HexLetters[k])

RECURSIVE HexVal(_)
HexVal(s) ==
    IF Len(s) = 0 THEN 0 ELSE 16 * HexVal(Front(s)) + HexDigitVal(s[Len(s)])

\* int(block_hex, 16) of line 245: an optional 0x prefix, then at least one
\* hexadecimal digit; anything else raises ValueError
ParseHex(s) ==
    LET body == IF Len(s) >= 2 /\ s[1] = "0" /\ s[2] \in {"x", "X"}
                THEN SubSeq(s, 3, Len(s)) ELSE s
        valid == Len(body) > 0 /\ \A k \in 1..Len(body) : IsHexDigit(body[k])
    IN  [valid |-> valid, value |-> IF valid THEN HexVal(body) ELSE 0]

\* int(head_slot) of line 275 on a string: decimal digits only
ParseDecimal(s) ==
    LET valid == Len(s) > 0 /\ \A k \in 1..Len(s) : s[k] \in Digits
    IN  [valid |-> valid, value |-> IF valid THEN NumVal(s) ELSE 0]

\* truth value of an optional string
Truthy(x) == x # None /\ x # <<>>

Hex_0x64 == <<"0", "x", "6", "4">>

Hex_0x1A == <<"0", "x", "1", "A">>

Hex_0x == <<"0", "x">>

\* what the execution endpoint can answer to eth_blockNumber: no answer
\* (connection error, timeout, body that is not JSON), a status other than
\* 200, or 200 with a JSON object whose result is absent, null or a string
ExecResponses ==
    {[status |-> "raise", has_result |-> FALSE, result |-> None],
     [status |-> "500", has_result |-> FALSE, result |-> None],
     [status |-> "200", has_result |-> FALSE, result |-> None],
     [status |-> "200", has_result |-> TRUE, result |-> None],
     [status |-> "200", has_result |-> TRUE, result |-> Hex_0x64],
     [status |-> "200", has_result |-> TRUE, result |-> Hex_0x1A],
     [status |-> "200", has_result |-> TRUE, result |-> Hex_0x]}

Version_Lighthouse == <<"L", "i", "g", "h", "t", "h", "o", "u", "s", "e">>

\* answers of /eth/v1/node/version; result is data.version
VersionResponses ==
    {[status |-> "raise", has_result |-> FALSE, result |-> None],
     [status |-> "500", has_result |-> FALSE, result |-> None],
     [status |-> "200", has_result |-> FALSE, result |-> None],
     [status |-> "200", has_result |-> TRUE, result |-> Version_Lighthouse]}

Slot_0 == <<"0">>

Slot_12 == <<"1", "2">>

Slot_0x12 == <<"0", "x", "1", "2">>

\* answers of /eth/v1/beacon/headers/head; result is
\* data.header.message.slot
HeadResponses ==
    {[status |-> "raise", has_result |-> FALSE, result |-> None],
     [status |-> "500", has_result |-> FALSE, result |-> None],
     [status |-> "200", has_result |-> FALSE, result |-> None],
     [status |-> "200", has_result |-> TRUE, result |-> Slot_0],
     [status |-> "200", has_result |-> TRUE, result |-> Slot_12],
     [status |-> "200", has_result |-> TRUE, result |-> Slot_0x12]}

\* answers of /eth/v1/beacon/blob_sidecars/{slot}; blob_count is the length
\* of the data list
BlobResponses ==
    {[status |-> "raise", blob_count |-> 0],
     [status |-> "500", blob_count |-> 0],
     [status |-> "404", blob_count |-> 0]}
    \cup {[status |-> "200", blob_count |-> n] : n \in 0..MaxBlobs}

\* data.get(...) of lines 243, 264, 273: None when the field is absent
Field(response) == IF response.has_result THEN response.result ELSE None

\* healthy as soon as the body has a result field
ExecCheckFieldPresent(status, response) ==
    IF response.status = "raise"
    THEN [status EXCEPT !.healthy = FALSE, !.http_code = "unreachable"]
    ELSE IF response.status = "200" /\ response.has_result
    THEN [healthy |-> TRUE,
          block_number |-> IF Truthy(response.result) /\ ParseHex(response.result).valid
                           THEN Some(ParseHex(response.result).value) ELSE NoInt,
          http_code |-> response.status]
    ELSE [status EXCEPT !.healthy = FALSE, !.http_code = response.status]

\* lines 238-255: exec_status after the execution check
ExecCheck(status, response) ==
    IF response.status = "raise"
    THEN [status EXCEPT !.healthy = FALSE, !.http_code = "unreachable"]
    ELSE IF response.status = "200"
    THEN LET block_hex == Field(response)
         IN  IF Truthy(block_hex)
             THEN IF ParseHex(block_hex).valid
                  THEN [healthy |-> TRUE,
                        block_number |-> Some(ParseHex(block_hex).value),
                        http_code |-> response.status]
                  ELSE [status EXCEPT !.healthy = FALSE, !.http_code = "unreachable"]
             ELSE [status EXCEPT !.healthy = FALSE, !.http_code = response.status]
    ELSE [status EXCEPT !.healthy = FALSE, !.http_code = response.status]

\* both boundaries given to the lower class
BlobStatusTextStrict(success_rate) ==
    IF success_rate > Percent(75) THEN "HEALTHY"
    ELSE IF success_rate > Percent(25) THEN "WARNING"
    ELSE "CRITICAL"

\* lines 350-358
BlobStatusText(success_rate) ==
    IF success_rate >= Percent(75) THEN "HEALTHY"
    ELSE IF success_rate >= Percent(25) THEN "WARNING"
    ELSE "CRITICAL"

\* lines 328-386: the lines of the message that depend on the report
\* (exec_line, beacon_line, blob_line); "raise" when a key is missing
_format_rpc_health_message(r) ==
    LET exec_line == IF r.exec_status.healthy THEN "exec_healthy" ELSE "exec_unhealthy"
        sampled == r.beacon_rpc /\ r.beacon_status.healthy
                   /\ r.beacon_status.head_slot \notin {NoInt, Some(0)}
    IN  IF sampled /\ "slots_with_blobs" \notin DOMAIN r.blob_status
        THEN <<"raise">>
        ELSE <<exec_line,
               IF ~r.beacon_rpc THEN "beacon_not_provided"
               ELSE IF r.beacon_status.healthy THEN "beacon_healthy"
               ELSE "beacon_unhealthy",
               IF ~r.beacon_rpc \/ ~r.beacon_status.healthy THEN ""
               ELSE IF sampled THEN BlobStatusText(r.blob_status.success_rate)
               ELSE "no_head_slot">>

\* the success flag following the execution check alone
ReportExecOnly(r) ==
    LET message == _format_rpc_health_message(r)
    IN  IF message = <<"raise">>
        THEN [r EXCEPT !.pc = "done", !.message = <<"error">>, !.escaped = TRUE]
        ELSE [r EXCEPT !.pc = "done", !.message = message,
                       !.success = r.exec_status.healthy]

\* lines 286-292: format the message, set success, return
Report(r) ==
    LET message == _format_rpc_health_message(r)
    IN  IF message = <<"raise">>
        THEN [r EXCEPT !.pc = "done", !.message = <<"error">>, !.escaped = TRUE]
        ELSE [r EXCEPT !.pc = "done", !.message = message, !.success = TRUE]

\* lines 217-237: a call of check_rpc_health; beacon_rpc tells whether a
\* beacon endpoint is given
CheckRpcHealth(beacon_rpc) ==
    /\ rpc.pc \in {"idle", "done"}
    /\ rpc' = [IdleRpc EXCEPT !.pc = "exec", !.beacon_rpc = beacon_rpc]
    /\ UNCHANGED <<node_vars, fmt, sync, ver, mon, chat>>

\* lines 238-257: the execution endpoint answered or the request failed
ExecResponds(response) ==
    /\ rpc.pc = "exec"
    /\ LET status == ExecCheck(rpc.exec_status, response)
           r == [rpc EXCEPT !.exec_status = status, !.exec_response = response,
                            !.exec_alone = status]
       IN  rpc' = IF r.beacon_rpc THEN [r EXCEPT !.pc = "version"] ELSE Report(r)
    /\ UNCHANGED <<node_vars, fmt, sync, ver, mon, chat>>

\* the head request sent whatever the version answer was
VersionRespondsAlwaysHead(response) ==
    /\ rpc.pc = "version"
    /\ LET r == [rpc EXCEPT !.version_response = response]
       IN  rpc' = IF response.status = "raise"
                  THEN [r EXCEPT !.pc = "head",
                                 !.beacon_status.http_code = "unreachable"]
                  ELSE [r EXCEPT !.pc = "head",
                                 !.beacon_status.http_code = response.status,
                                 !.beacon_status.healthy = TRUE,
                                 !.beacon_status.version = Field(response)]
    /\ UNCHANGED <<node_vars, fmt, sync, ver, mon, chat>>

\* lines 258-268, 281-284: the version endpoint answered or the request failed
VersionResponds(response) ==
    /\ rpc.pc = "version"
    /\ LET r == [rpc EXCEPT !.version_response = response]
       IN  rpc' = IF response.status = "raise"
                  THEN Report([r EXCEPT !.beacon_status.healthy = FALSE,
                                        !.beacon_status.http_code = "unreachable"])
                  ELSE LET s == [r EXCEPT !.beacon_status.http_code = response.status]
                       IN  IF response.status = "200" /\ Truthy(Field(response))
                           THEN [s EXCEPT !.pc = "head",
                                          !.beacon_status.healthy = TRUE,
                                          !.beacon_status.version = Field(response)]
                           ELSE Report(s)
    /\ UNCHANGED <<node_vars, fmt, sync, ver, mon, chat>>

\* the handler of a failed beacon request writing into exec_status
HeadRespondsResetsExec(response) ==
    /\ rpc.pc = "head"
    /\ LET r == [rpc EXCEPT !.head_response = response]
           head_slot == Field(response)
       IN  rpc' = IF response.status = "raise"
                     \/ (response.status = "200" /\ Truthy(head_slot)
                         /\ ~ParseDecimal(head_slot).valid)
                  THEN Report([r EXCEPT !.beacon_status.healthy = FALSE,
                                        !.exec_status.http_code = "unreachable"])
                  ELSE IF response.status = "200" /\ Truthy(head_slot)
                  THEN [r EXCEPT !.pc = "blobs",
                                 !.beacon_status.head_slot =
                                     Some(ParseDecimal(head_slot).value)]
                  ELSE Report([r EXCEPT !.beacon_status.healthy = FALSE])
    /\ UNCHANGED <<node_vars, fmt, sync, ver, mon, chat>>

\* lines 269-284: the head-header endpoint answered or the request failed
HeadResponds(response) ==
    /\ rpc.pc = "head"
    /\ LET r == [rpc EXCEPT !.head_response = response]
           head_slot == Field(response)
       IN  rpc' = IF response.status = "raise"
                     \/ (response.status = "200" /\ Truthy(head_slot)
                         /\ ~ParseDecimal(head_slot).valid)
                  THEN Report([r EXCEPT !.beacon_status.healthy = FALSE,
                                        !.beacon_status.http_code = "unreachable"])
                  ELSE IF response.status = "200" /\ Truthy(head_slot)
                  THEN [r EXCEPT !.pc = "blobs",
                                 !.beacon_status.head_slot =
                                     Some(ParseDecimal(head_slot).value)]
                  ELSE Report([r EXCEPT !.beacon_status.healthy = FALSE])
    /\ UNCHANGED <<node_vars, fmt, sync, ver, mon, chat>>

\* line 319; the quotient and the product are exact in binary floating point
\* for 0..10 slots out of 10
SuccessRate(slots_with_blobs) ==
    IF total_slots > 0 THEN (slots_with_blobs * Percent(100)) \div total_slots ELSE 0

\* the probe outcomes seen after one more response
Seen(seen, response) ==
    IF response.status = "raise" THEN [seen EXCEPT !.raised = @ + 1]
    ELSE IF response.status = "404" THEN [seen EXCEPT !.notfound = @ + 1]
    ELSE IF response.status # "200" THEN [seen EXCEPT !.other = @ + 1]
    ELSE [seen EXCEPT !.lists[response.blob_count] = @ + 1]

\* a failed probe ends the sampling
ProbeAbortsOnError(r, response) ==
    LET s == [r EXCEPT !.probed = Append(@, r.beacon_status.head_slot[1] - r.i),
                       !.seen = Seen(@, response)]
    IN  IF response.status \notin {"200", "404"}
        THEN [s EXCEPT !.errors = @ + 1, !.i = total_slots]
        ELSE IF response.status = "200" /\ response.blob_count > 0
        THEN [s EXCEPT !.slots_with_blobs = @ + 1,
                       !.total_blobs = @ + response.blob_count, !.i = @ + 1]
        ELSE [s EXCEPT !.i = @ + 1]

\* lines 301-317: one turn of the loop, the probe of slot head_slot - i
Probe(r, response) ==
    LET s == [r EXCEPT !.i = @ + 1,
                       !.probed = Append(@, r.beacon_status.head_slot[1] - r.i),
                       !.seen = Seen(@, response)]
    IN  IF response.status = "raise" THEN [s EXCEPT !.errors = @ + 1]
        ELSE IF response.status = "200"
        THEN IF response.blob_count > 0
             THEN [s EXCEPT !.slots_with_blobs = @ + 1,
                            !.total_blobs = @ + response.blob_count]
             ELSE s
        ELSE IF response.status = "404" THEN s
        ELSE [s EXCEPT !.errors = @ + 1]

\* the statistics stored without the number of slots
BlobStatusThreeKeys(r) ==
    [success_rate |-> SuccessRate(r.slots_with_blobs),
     total_blobs |-> r.total_blobs,
     errors |-> r.errors]

\* lines 319-326
BlobStatus(r) ==
    [success_rate |-> SuccessRate(r.slots_with_blobs),
     total_blobs |-> r.total_blobs,
     errors |-> r.errors,
     slots_checked |-> total_slots,
     slots_with_blobs |-> r.slots_with_blobs]

\* lines 294-326 and 276-292: a blob sidecar request answered or failed; after
\* the last one the statistics are stored and the report is returned
BlobResponds(response) ==
    /\ rpc.pc = "blobs"
    /\ rpc.i < total_slots
    /\ LET r == Probe(rpc, response)
       IN  rpc' = IF r.i < total_slots THEN r
                  ELSE Report([r EXCEPT !.blob_status = BlobStatus(r)])
    /\ UNCHANGED <<node_vars, fmt, sync, ver, mon, chat>>

NextHealth ==
    \/ \E beacon_rpc \in BOOLEAN : CheckRpcHealth(beacon_rpc)
    \/ \E response \in ExecResponses : ExecResponds(response)
    \/ \E response \in VersionResponses : VersionResponds(response)
    \/ \E response \in HeadResponses : HeadResponds(response)
    \/ \E response \in BlobResponses : BlobResponds(response)

SpecHealth == Init /\ [][NextHealth]_vars

(***************************************************************************)
(* NodeService.get_sync_status                                             *)
(***************************************************************************)
Block_0 == <<"0">>

Block_50 == <<"5", "0">>

Block_99 == <<"9", "9">>

Block_100 == <<"1", "0", "0">>

Block_0100 == <<"0", "1", "0", "0">>

\* the ports a caller passes
LocalPorts == {DEFAULT_LOCAL_RPC_PORT, 9000}

\* answers to node_getL2Tips: no answer (timeout, client error, body that is
\* not JSON), a status other than 200, 200 without result.proven, 200 with
\* result.proven.number; result is the number as sent
TipsResponses ==
    {[status |-> "raise", has_result |-> FALSE, result |-> None],
     [status |-> "500", has_result |-> FALSE, result |-> None],
     [status |-> "200", has_result |-> FALSE, result |-> None]}
    \cup {[status |-> "200", has_result |-> TRUE, result |-> n] :
             n \in {Block_0, Block_50, Block_99, Block_100, Block_0100, Hex_0x64}}

\* lines 299-323: the block number of one side, None for every failure
fetch_block_number(response) ==
    IF response.status = "200" /\ response.has_result
                               /\ ParseDecimal(response.result).valid
    THEN Some(ParseDecimal(response.result).value)
    ELSE NoInt

\* the comparison without the test for None
SyncedWithoutNoneTest(local_block, remote_block) == local_block = remote_block

\* lines 331-334
Synced(local_block, remote_block) ==
    IF local_block # NoInt /\ remote_block # NoInt
    THEN local_block = remote_block
    ELSE FALSE

\* the progress computed as remote over local
SyncTextInverted(status) ==
    IF status.local = NoInt \/ status.remote = NoInt
    THEN [kind |-> "could_not_fetch", progress |-> "none", percent |-> 0]
    ELSE IF status.synced
    THEN [kind |-> "fully_synced", progress |-> "none", percent |-> 0]
    ELSE IF status.local[1] # 0 /\ status.remote[1] # 0
    THEN [kind |-> "syncing", progress |-> "percent",
          percent |-> (2 * status.remote[1] * 10000 + status.local[1])
                         \div (2 * status.local[1])]
    ELSE [kind |-> "syncing", progress |-> "N/A", percent |-> 0]

\* bot_handlers.py lines 173-183: the reply built from the status; percent
\* is local / remote * 100 formatted with two decimals, kept here as a
\* whole number of hundredths of a percent rounded to the nearest
SyncText(status) ==
    IF status.local = NoInt \/ status.remote = NoInt
    THEN [kind |-> "could_not_fetch", progress |-> "none", percent |-> 0]
    ELSE IF status.synced
    THEN [kind |-> "fully_synced", progress |-> "none", percent |-> 0]
    ELSE IF status.local[1] # 0 /\ status.remote[1] # 0
    THEN [kind |-> "syncing", progress |-> "percent",
          percent |-> (2 * status.local[1] * 10000 + status.remote[1])
                         \div (2 * status.remote[1])]
    ELSE [kind |-> "syncing", progress |-> "N/A", percent |-> 0]

\* a side that failed makes the whole comparison fail
SyncResultAllOrNothing(s) ==
    LET l == fetch_block_number(s.local_response)
        r == fetch_block_number(s.remote_response)
        local_block == IF r = NoInt THEN NoInt ELSE l
        remote_block == IF l = NoInt THEN NoInt ELSE r
        synced == Synced(local_block, remote_block)
        result == [synced |-> synced, local |-> local_block, remote |-> remote_block]
    IN  [s EXCEPT !.pc = "done", !.local_block = local_block,
                  !.remote_block = remote_block, !.synced = synced,
                  !.result = result, !.text = SyncText(result)]

\* lines 329-341: both fetches are over, compare and return; the handler
\* that made the call builds its reply
SyncResult(s) ==
    LET local_block == fetch_block_number(s.local_response)
        remote_block == fetch_block_number(s.remote_response)
        synced == Synced(local_block, remote_block)
        result == [synced |-> synced, local |-> local_block, remote |-> remote_block]
    IN  [s EXCEPT !.pc = "done", !.local_block = local_block,
                  !.remote_block = remote_block, !.synced = synced,
                  !.result = result, !.text = SyncText(result)]

\* lines 289-329: a call; both requests are handed to gather
GetSyncStatus(local_port) ==
    /\ sync.pc \in {"idle", "done"}
    /\ sync' = [IdleSync EXCEPT !.pc = "gather", !.local_port = local_port]
    /\ UNCHANGED <<node_vars, rpc, fmt, ver, mon, chat>>

\* the call returning as soon as the local fetch ends
LocalRespondsRace(response) ==
    /\ sync.pc = "gather"
    /\ sync.local_response = NoResponse
    /\ LET s == [sync EXCEPT !.local_response = response,
                             !.first = IF @ = "none" THEN "local" ELSE @]
       IN  sync' = SyncResult(s)
    /\ UNCHANGED <<node_vars, rpc, fmt, ver, mon, chat>>

\* line 328: the fetch of the local node ends; gather returns when both have
LocalResponds(response) ==
    /\ sync.pc = "gather"
    /\ sync.local_response = NoResponse
    /\ LET s == [sync EXCEPT !.local_response = response,
                             !.first = IF @ = "none" THEN "local" ELSE @]
       IN  sync' = IF s.remote_response # NoResponse THEN SyncResult(s) ELSE s
    /\ UNCHANGED <<node_vars, rpc, fmt, ver, mon, chat>>

\* line 328: the fetch of the remote endpoint ends
RemoteResponds(response) ==
    /\ sync.pc = "gather"
    /\ sync.remote_response = NoResponse
    /\ LET s == [sync EXCEPT !.remote_response = response,
                             !.first = IF @ = "none" THEN "remote" ELSE @]
       IN  sync' = IF s.local_response # NoResponse THEN SyncResult(s) ELSE s
    /\ UNCHANGED <<node_vars, rpc, fmt, ver, mon, chat>>

NextSync ==
    \/ \E local_port \in LocalPorts : GetSyncStatus(local_port)
    \/ \E response \in TipsResponses : LocalResponds(response)
    \/ \E response \in TipsResponses : RemoteResponds(response)

SpecSync == Init /\ [][NextSync]_vars

(***************************************************************************)
(* NodeService.get_node_current_version                                    *)
(***************************************************************************)
\* lines 34-40: the candidates in the order they are tried
paths ==
    <<"/home/ubuntu/.aztec/bin/aztec", "/root/.aztec/bin/aztec",
      "~/.aztec/bin/aztec", "/usr/local/bin/aztec", "aztec">>

\* line 58
flags == <<"-V", "--version", "-v">>

\* the number of digits of s from position i on
RECURSIVE DigitRun(_, _)
DigitRun(s, i) ==
    IF i <= Len(s) /\ s[i] \in Digits THEN 1 + DigitRun(s, i + 1) ELSE 0

IsDot(s, i) == i <= Len(s) /\ s[i] = "."

\* the end of the match of \d+\.\d+\.\d+ that starts at position i, 0 when
\* there is none; each \d+ takes the whole run of digits
MatchEnd(s, i) ==
    LET a == DigitRun(s, i)
        j == i + a + 1
        b == DigitRun(s, j)
        k == j + b + 1
        c == DigitRun(s, k)
    IN  IF a > 0 /\ IsDot(s, i + a) /\ b > 0 /\ IsDot(s, j + b) /\ c > 0
        THEN k + c - 1 ELSE 0

\* line 67-69: re.search(r'(\d+\.\d+\.\d+)', output), the leftmost match, None
\* when nothing matches
SearchVersion(output) ==
    LET starts == {i \in 1..Len(output) : MatchEnd(output, i) > 0}
    IN  IF starts = {} THEN None
        ELSE LET i == CHOOSE m \in starts : \A n \in starts : m <= n
             IN  SubSeq(output, i, MatchEnd(output, i))

\* subprocess.run raised (timeout, not executable after all)
Raised == <<"raise">>

Out_empty == <<>>

Out_usage == <<"u", "s", "a", "g", "e", " ", "1", ".", "2">>

Out_0_87_0 == <<"0", ".", "8", "7", ".", "0", "\n">>

Out_v0_90_0 == <<"v", "0", ".", "9", "0", ".", "0">>

Out_two == <<"1", ".", ".", "2", " ", "0", ".", "8", "7", ".", "0", " ", "0", ".", "9", "0", ".", "0">>

Out_four == <<"1", "2", ".", "3", ".", "4", ".", "5">>

\* stdout + stderr of one run of the executable with a flag, or Raised
FlagOutputs == {Raised, Out_empty, Out_usage, Out_0_87_0, Out_v0_90_0, Out_two, Out_four}

\* line 32: a call
GetNodeCurrentVersion ==
    /\ ver.pc \in {"idle", "done"}
    /\ ver' = [IdleVersion EXCEPT !.pc = "paths", !.path = 1]
    /\ UNCHANGED <<node_vars, rpc, fmt, sync, mon, chat>>

\* every candidate probed, the last one that resolves wins
ProbePathKeepsLooking(found) ==
    /\ ver.pc = "paths"
    /\ LET v == [ver EXCEPT !.probed = Append(@, ver.path),
                           !.aztec_cmd = IF found THEN ver.path ELSE @]
       IN  ver' = IF ver.path < Len(paths) THEN [v EXCEPT !.path = @ + 1]
                  ELSE IF v.aztec_cmd # 0 THEN [v EXCEPT !.pc = "flags", !.flag = 1]
                  ELSE [v EXCEPT !.pc = "done", !.result = None]
    /\ UNCHANGED <<node_vars, rpc, fmt, sync, mon, chat>>

\* lines 43-56: one turn of the loop over the candidates; found tells whether
\* the candidate is an executable file, for the bare name whether which
\* succeeded
ProbePath(found) ==
    /\ ver.pc = "paths"
    /\ LET v == [ver EXCEPT !.probed = Append(@, ver.path)]
       IN  ver' = IF found
                  THEN [v EXCEPT !.pc = "flags", !.aztec_cmd = ver.path, !.flag = 1]
                  ELSE IF ver.path < Len(paths) THEN [v EXCEPT !.path = @ + 1]
                  ELSE [v EXCEPT !.pc = "done", !.result = None]
    /\ UNCHANGED <<node_vars, rpc, fmt, sync, mon, chat>>

\* lines 58-72: one turn of the loop over the flags
RunFlag(output) ==
    /\ ver.pc = "flags"
    /\ LET v == [ver EXCEPT !.flags_tried = Append(@, flags[ver.flag]),
                           !.outputs = Append(@, output)]
           match == IF output = Raised THEN None ELSE SearchVersion(output)
       IN  ver' = IF match # None THEN [v EXCEPT !.pc = "done", !.result = match]
                  ELSE IF ver.flag < Len(flags) THEN [v EXCEPT !.flag = @ + 1]
                  ELSE [v EXCEPT !.pc = "done", !.result = None]
    /\ UNCHANGED <<node_vars, rpc, fmt, sync, mon, chat>>

NextVersion ==
    \/ GetNodeCurrentVersion
    \/ \E found \in BOOLEAN : ProbePath(found)
    \/ \E output \in FlagOutputs : RunFlag(output)

SpecVersion == Init /\ [][NextVersion]_vars

(***************************************************************************)
(* The blob classification of _format_rpc_health_message on its own        *)
(***************************************************************************)
\* lines 349-358 applied to a success rate
Classify(success_rate) ==
    /\ fmt' = [success_rate |-> success_rate,
               blob_status_text |-> BlobStatusText(success_rate)]
    /\ UNCHANGED <<node_vars, rpc, sync, ver, mon, chat>>

\* the rates between 0.0 and 100.0 in steps of 0.1
Rates == 0..Percent(100)

NextClassify == \E success_rate \in Rates : Classify(success_rate)

SpecClassify == Init /\ [][NextClassify]_vars

(***************************************************************************)
(* Properties                                                              *)
(***************************************************************************)
\* task t enters fetch_available_versions in this step
CallStarts(t) == fetch[t].pc \in {"idle", "done"} /\ fetch'[t] # fetch[t]

\* the cached list, [] when the cache is empty
CachedList(cache) == IF "versions" \in DOMAIN cache THEN cache.versions ELSE <<>>

\* the cache holds a list younger than CACHE_EXPIRY at time t
YoungerThanExpiry(cache, t) ==
    /\ "versions" \in DOMAIN cache
    /\ t - cache.timestamp < CACHE_EXPIRY

\* C1: a call returns the cached list without a registry request exactly
\* when use_cache is set and the cache holds a list whose age at the start of
\* the call is strictly less than CACHE_EXPIRY; in every other case the call
\* goes to the registry, and a call that did not hit the cache has issued at
\* least one request when it returns.
C1_CacheHitExactlyWhenFresh ==
    [][\A t \in Tasks :
          /\ CallStarts(t) =>
                IF fetch'[t].use_cache /\ YoungerThanExpiry(version_cache, now)
                THEN /\ fetch'[t].pc = "done"
                     /\ fetch'[t].requests = 0
                     /\ fetch'[t].result = version_cache.versions
                ELSE /\ fetch'[t].pc = "request"
                     /\ fetch'[t].requests = 0
          /\ (fetch'[t].pc = "done" /\ fetch'[t].outcome # "cache_hit")
                => fetch'[t].requests >= 1
          /\ (fetch'[t].pc = "done" /\ fetch'[t].outcome = "cache_hit")
                => fetch'[t].requests = 0]_vars

\* a call with use_cache hit a cache entry of the greatest age that is fresh
C1_Witness ==
    \E t \in Tasks :
        /\ fetch[t].outcome = "cache_hit"
        /\ fetch[t].use_cache
        /\ fetch[t].requests = 0
        /\ "versions" \in DOMAIN version_cache
        /\ fetch[t].current_time - version_cache.timestamp = CACHE_EXPIRY - 1

\* task t starts a call with use_cache, its previous call was made with
\* use_cache less than CACHE_EXPIRY seconds earlier, and the cache was not
\* cleared in between
SecondCall(t) ==
    /\ fetch[t].pc = "done"
    /\ fetch[t].use_cache
    /\ ~cleared
    /\ now - fetch[t].current_time < CACHE_EXPIRY
    /\ fetch'[t] # fetch[t]
    /\ fetch'[t].use_cache

ServedFromCache(t) ==
    /\ fetch'[t].pc = "done"
    /\ fetch'[t].requests = 0
    /\ fetch'[t].result = fetch[t].result

\* C2 as stated: of two calls with use_cache made within CACHE_EXPIRY of
\* each other without a clear in between, the second issues no request and
\* returns the list of the first, whatever the first call did.
C2_Original == [][\A t \in Tasks : SecondCall(t) => ServedFromCache(t)]_vars

\* C2 amended: the second call issues no request and returns the list of the
\* first when the first call's remote fetch completed without an exception,
\* or when the first call was a cache hit on an entry that is still younger
\* than CACHE_EXPIRY when the second call starts.
C2_SecondCallServedFromCache ==
    [][\A t \in Tasks :
          (/\ SecondCall(t)
           /\ \/ fetch[t].outcome = "fetched"
              \/ /\ fetch[t].outcome = "cache_hit"
                 /\ YoungerThanExpiry(version_cache, now))
          => ServedFromCache(t)]_vars

\* a call with use_cache was served an entry that an earlier call wrote,
\* later than that call and with no clear since
C2_Witness ==
    \E t \in Tasks :
        /\ fetch[t].outcome = "cache_hit"
        /\ fetch[t].use_cache
        /\ ~cleared
        /\ "versions" \in DOMAIN version_cache
        /\ version_cache.versions # <<>>
        /\ fetch[t].current_time > version_cache.timestamp
        /\ fetch[t].current_time - version_cache.timestamp < CACHE_EXPIRY - 1

\* each entry's version is strictly greater than the next entry's
StrictlyDescending(list) ==
    \A i \in 1..(Len(list) - 1) :
        ReleaseLess(parse_version(list[i + 1]).release, parse_version(list[i]).release)

\* no entry's version is less than the next entry's
Descending(list) ==
    \A i \in 1..(Len(list) - 1) :
        ~ReleaseLess(parse_version(list[i]).release, parse_version(list[i + 1]).release)

\* C3 as stated: the list returned by a remote fetch that completed without
\* an exception is sorted strictly descending by semantic version.
C3_Original ==
    \A t \in Tasks : fetch[t].outcome = "fetched" => StrictlyDescending(fetch[t].result)

\* C3 amended: the list returned by a remote fetch that completed without an
\* exception is sorted descending by semantic version, each entry's version
\* being greater than or equal to the next entry's.
C3_SortedDescending ==
    \A t \in Tasks : fetch[t].outcome = "fetched" => Descending(fetch[t].result)

\* a fetched list with two entries of equal version and a greater one
C3_Witness ==
    \E t \in Tasks :
        /\ fetch[t].outcome = "fetched"
        /\ Len(fetch[t].result) >= 3
        /\ ~StrictlyDescending(fetch[t].result)
        /\ \E i \in 1..(Len(fetch[t].result) - 1) :
              ReleaseLess(parse_version(fetch[t].result[i + 1]).release,
                          parse_version(fetch[t].result[i]).release)

\* a tag name as C4 describes the accepted ones: no keyword in it, exactly
\* three dot-separated digit groups, version at least MIN_NODE_VERSION
ExactlyThreeGroups(name) ==
    \E i, j \in 1..Len(name) :
        /\ 1 < i /\ i + 1 < j /\ j < Len(name)
        /\ name[i] = "." /\ name[j] = "."
        /\ \A k \in (1..Len(name)) \ {i, j} : name[k] \in Digits

DescribedAsAccepted(name) ==
    /\ \A k \in Keywords : ~Contains(Lower(name), k)
    /\ ExactlyThreeGroups(name)
    /\ ~ReleaseLess(parse_version(name).release,
                    parse_version(MIN_NODE_VERSION).release)

\* C4 as stated: the versions accepted from a page of tags are exactly the
\* names without a prerelease keyword that consist of three dot-separated
\* digit groups and are at least MIN_NODE_VERSION, in arrival order; the
\* example tags give the fetch result [0.90.0, 0.87.0].
C4_Claim ==
    \A t \in Tasks :
        /\ fetch[t].tags # <<>> =>
              fetch[t].page_versions = SelectSeq(fetch[t].tags, DescribedAsAccepted)
        /\ (fetch[t].outcome = "fetched" /\ fetch[t].fault = "none"
              /\ fetch[t].tags = ExampleTags)
              => fetch[t].result = <<V_0_90_0, V_0_87_0>>

\* C5: a call requests at most max_pages pages; whenever it is about to
\* request a further page, fewer than 100 versions are accepted so far and
\* the previous response had a next link and a non-empty results list; the
\* pages requested so far are exactly those before the current page.
C5_PaginationStops ==
    \A t \in Tasks :
        /\ fetch[t].requests <= 50
        /\ fetch[t].pc = "request" =>
              /\ fetch[t].page <= 50
              /\ fetch[t].requests = fetch[t].page - 1
              /\ Len(fetch[t].all_versions) < 100
              /\ fetch[t].page > 1 => (fetch[t].next /\ fetch[t].tags # <<>>)
        /\ (fetch[t].pc = "done" /\ fetch[t].outcome = "fetched"
              /\ fetch[t].fault = "none" /\ fetch[t].requests < 50
              /\ Len(fetch[t].result) < 100)
              => (~fetch[t].next \/ fetch[t].tags = <<>>)

\* a fetch stopped by the page limit: 50 pages requested, each with a next
\* link, fewer than 100 versions accepted
C5_Witness ==
    \E t \in Tasks :
        /\ fetch[t].pc = "done"
        /\ fetch[t].requests = 50
        /\ fetch[t].next
        /\ Len(fetch[t].result) < 100

\* C6 as stated: when a page request fails (exception or status other than
\* 200) the call returns the list that was cached before, and the empty list
\* when nothing was cached.
C6_Claim ==
    [][\A t \in Tasks :
          (fetch[t].pc = "request" /\ fetch'[t].pc = "done" /\ fetch'[t].fault # "none")
          => fetch'[t].result = CachedList(version_cache)]_vars

\* C7: the cache changes only by clear_version_cache or by a remote fetch
\* that completes without an exception, which writes the returned list and
\* the start time of the call together; a fetch that ends with an exception
\* and a call served from the cache leave the cache as it was.
C7_CacheWrittenOnlyOnCompletion ==
    [][/\ version_cache' # version_cache =>
            \/ version_cache' = <<>> /\ cleared'
            \/ \E t \in Tasks :
                  /\ fetch[t].pc = "request"
                  /\ fetch'[t].pc = "done"
                  /\ fetch'[t].fault # "exception"
                  /\ DOMAIN version_cache' = {"versions", "timestamp"}
                  /\ version_cache'.versions = fetch'[t].result
                  /\ version_cache'.timestamp = fetch'[t].current_time
       /\ \A t \in Tasks :
            /\ (fetch[t].pc = "request" /\ fetch'[t].fault = "exception")
                  => version_cache' = version_cache
            /\ (CallStarts(t) /\ fetch'[t].pc = "done")
                  => version_cache' = version_cache
            /\ (fetch[t].pc = "request" /\ fetch'[t].pc = "done"
                  /\ fetch'[t].fault # "exception")
                  => /\ version_cache'.versions = fetch'[t].result
                     /\ version_cache'.timestamp = fetch'[t].current_time]_vars

\* a fetch ended with an exception while an older list was cached, and the
\* cache still carries the older timestamp
C7_Witness ==
    \E t \in Tasks :
        /\ fetch[t].pc = "done"
        /\ fetch[t].fault = "exception"
        /\ "versions" \in DOMAIN version_cache
        /\ version_cache.versions # <<>>
        /\ version_cache.timestamp < fetch[t].current_time
        /\ fetch[t].result = version_cache.versions

\* the resolved current version of the call of task t is semantically equal
\* to its target
AlreadyAtTarget(t) ==
    /\ upd[t].pc # "idle"
    /\ upd[t].current_version # None
    /\ parse_version(upd[t].current_version).valid
    /\ parse_version(upd[t].target_version).valid
    /\ parse_version(upd[t].current_version).release
          = parse_version(upd[t].target_version).release

\* C8 as stated, for targets of the form x.y.z: a call whose current version
\* is semantically equal to the target never runs the upgrade command and
\* returns success = true, whatever the cache holds and whatever the fetch
\* returns.
C8_Original ==
    \A t \in Tasks :
        (AlreadyAtTarget(t) /\ ExactlyThreeGroups(upd[t].target_version)) =>
            /\ upd[t].commands = 0
            /\ upd[t].pc = "done" => upd[t].success

\* C8 amended: a call whose current version is semantically equal to the
\* target never runs the upgrade command; it returns success = true when the
\* target passed the format check and is in the list the fetch returned, and
\* success = false with the invalid-format or not-found message otherwise.
C8_NoCommandWhenAlreadyCurrent ==
    \A t \in Tasks :
        AlreadyAtTarget(t) =>
            /\ upd[t].commands = 0
            /\ upd[t].command_output = ""
            /\ upd[t].pc \in {"fetching", "done"}
            /\ upd[t].pc = "done" =>
                  \/ /\ upd[t].message = "invalid_format"
                     /\ ~upd[t].success
                  \/ /\ upd[t].message = "not_found"
                     /\ ~upd[t].success
                     /\ upd[t].target_version \notin Elements(fetch[t].result)
                  \/ /\ upd[t].message = "already_current"
                     /\ upd[t].success
                     /\ upd[t].target_version \in Elements(fetch[t].result)

\* a call returned "already current" for a target that differs from the
\* current version as a string and equals it as a version
C8_Witness ==
    \E t \in Tasks :
        /\ AlreadyAtTarget(t)
        /\ upd[t].pc = "done"
        /\ upd[t].message = "already_current"
        /\ upd[t].success
        /\ upd[t].commands = 0
        /\ upd[t].target_version # upd[t].current_version

\* C9 as stated: success is true only if a probe made after the upgrade
\* command returned the target; when the command ran, success is true exactly
\* when the re-resolved version equals the target, and a command that
\* succeeded followed by another or no version gives success = false with the
\* mismatch message.
C9_Original ==
    \A t \in Tasks :
        upd[t].pc = "done" =>
            /\ upd[t].success =>
                  (upd[t].commands = 1 /\ upd[t].probes = 2
                     /\ upd[t].new_version = upd[t].target_version)
            /\ upd[t].commands = 1 =>
                  (upd[t].success <=>
                     (upd[t].probes = 2 /\ upd[t].new_version = upd[t].target_version))
            /\ (upd[t].probes = 2 /\ upd[t].new_version # upd[t].target_version)
                  => (~upd[t].success /\ upd[t].message = "mismatch")

\* C9 amended: success is true only if the call found the node already at
\* the target (no command run) or a probe made after the upgrade command
\* returned the target; the rest as stated.
C9_SuccessNeedsConfirmation ==
    \A t \in Tasks :
        upd[t].pc = "done" =>
            /\ upd[t].success =>
                  \/ /\ upd[t].message = "already_current"
                     /\ upd[t].commands = 0
                     /\ upd[t].probes = 1
                  \/ /\ upd[t].commands = 1
                     /\ upd[t].probes = 2
                     /\ upd[t].new_version = upd[t].target_version
            /\ upd[t].commands = 1 =>
                  (upd[t].success <=>
                     (upd[t].probes = 2 /\ upd[t].new_version = upd[t].target_version))
            /\ (upd[t].probes = 2 /\ upd[t].new_version # upd[t].target_version)
                  => (~upd[t].success /\ upd[t].message = "mismatch")

\* the command succeeded and the version resolved afterwards is a version
\* other than the target
C9_Witness ==
    \E t \in Tasks :
        /\ upd[t].pc = "done"
        /\ upd[t].commands = 1
        /\ upd[t].probes = 2
        /\ upd[t].new_version # None
        /\ upd[t].new_version # upd[t].target_version
        /\ upd[t].message = "mismatch"
        /\ ~upd[t].success

\* C10 as stated: a target that is not three dot-separated digit groups is
\* rejected before any fetch, a well-formed target missing from the fetched
\* list is rejected after it; both with success = false, no upgrade command
\* and an empty command_output.
C10_Claim ==
    \A t \in Tasks :
        /\ (upd[t].pc # "idle" /\ ~ExactlyThreeGroups(upd[t].target_version)) =>
              /\ upd[t].pc = "done"
              /\ upd[t].message = "invalid_format"
              /\ ~upd[t].success
              /\ upd[t].commands = 0
              /\ upd[t].command_output = ""
        /\ (upd[t].pc = "done" /\ ExactlyThreeGroups(upd[t].target_version)
              /\ upd[t].target_version \notin Elements(fetch[t].result)) =>
              /\ upd[t].message = "not_found"
              /\ ~upd[t].success
              /\ upd[t].commands = 0
              /\ upd[t].command_output = ""

(***************************************************************************)
(* update_node_version: order of the steps                                 *)
(***************************************************************************)
\* the steps of one call in the order of the text of lines 156-185
UpdateOrder ==
    <<"resolve", "validate", "fetch", "compare", "command", "settle", "re_resolve">>

IsPrefix(s, full) == Len(s) <= Len(full) /\ SubSeq(full, 1, Len(s)) = s

\* C11: within one update_node_version call the steps taken so far are an
\* initial part of the order resolve, validate, fetch, compare, command,
\* settle, re-resolve; the upgrade command is started at most once; the settle
\* delay and the second version probe occur only after the command reported
\* success, and a call whose command failed ends with one probe and no delay.
C11_LinearNoRetry ==
    \A t \in Tasks :
        LET u == upd[t]
            steps == Elements(u.steps)
        IN  /\ IsPrefix(u.steps, UpdateOrder)
            /\ u.commands <= 1
            /\ u.probes <= 2
            /\ ("command" \in steps) = (u.commands = 1)
            /\ ("re_resolve" \in steps) = (u.probes = 2)
            /\ (u.pc = "settle" \/ "settle" \in steps \/ u.probes = 2)
                  => u.commands = 1 /\ u.command_success
            /\ (u.pc = "done" /\ u.commands = 1 /\ ~u.command_success)
                  => /\ u.probes = 1
                     /\ "settle" \notin steps
                     /\ u.message = "command_failed"

\* a call went through all seven steps
C11_Witness ==
    \E t \in Tasks : upd[t].pc = "done" /\ upd[t].steps = UpdateOrder

(***************************************************************************)
(* update_node_version: failures are returned                              *)
(***************************************************************************)
\* the call of task t returned
Returned(t) == upd[t].pc = "done"

\* something failed during the call: the current version could not be
\* resolved, a registry request of the version fetch failed, the target did
\* not parse, or the upgrade command failed
SomethingFailed(t) ==
    \/ upd[t].current_version = None
    \/ "fetch" \in Elements(upd[t].steps) /\ fetch[t].fault # "none"
    \/ upd[t].message \in {"invalid_format", "unexpected_error"}
    \/ upd[t].commands = 1 /\ ~upd[t].command_success

\* the record returned is a failure record for the requested target
FailureRecord(t) ==
    /\ ~upd[t].success
    /\ upd[t].message # ""
    /\ upd[t].result_new_version = upd[t].target_version

\* C12 as stated: after every failure of version resolution, version fetch,
\* version parsing or command execution the record returned has success
\* false, a non-empty message and new_version equal to the target.
C12_Original ==
    \A t \in Tasks : Returned(t) /\ SomethingFailed(t) => FailureRecord(t)

\* the ways a call ends that stop the update
RejectedOrFailed(t) ==
    upd[t].message \in {"invalid_format", "not_found", "unexpected_error",
                        "command_failed", "mismatch"}

\* C12: every call of update_node_version ends in a returned record with a
\* non-empty message and new_version equal to the requested target; the record
\* has success false exactly when the call ended as invalid format, version
\* not found, unexpected error, command failed or version mismatch. A current
\* version that could not be resolved, or a registry request that failed
\* while an older cached list held the target, does not stop the update.
C12_FailuresReturned ==
    \A t \in Tasks :
        /\ upd[t].pc # "idle" => upd[t].result_new_version = upd[t].target_version
        /\ Returned(t) =>
              /\ upd[t].message # ""
              /\ RejectedOrFailed(t) = ~upd[t].success
              /\ upd[t].commands = 1 /\ ~upd[t].command_success => ~upd[t].success
              /\ upd[t].probes = 2 /\ upd[t].new_version = None => ~upd[t].success

\* a call whose upgrade command failed has returned
C12_Witness ==
    \E t \in Tasks :
        /\ Returned(t)
        /\ upd[t].message = "command_failed"
        /\ FailureRecord(t)

(***************************************************************************)
(* check_rpc_health: the report                                            *)
(***************************************************************************)
\* a report has been returned
Reported == rpc.pc = "done"

\* C13 as stated: exec_status.healthy is true exactly when the execution
\* endpoint answered 200 with a body that has a result field, block_number
\* is then the hexadecimal result as an integer, and None otherwise.
C13_Original ==
    Reported =>
        /\ rpc.exec_status.healthy
              = (rpc.exec_response.status = "200" /\ rpc.exec_response.has_result)
        /\ rpc.exec_status.healthy => rpc.exec_status.block_number # NoInt
        /\ ~rpc.exec_status.healthy => rpc.exec_status.block_number = NoInt

\* the execution endpoint answered 200 with a result that is a non-empty
\* string of hexadecimal digits, with or without the 0x prefix
UsableResult(response) ==
    /\ response.status = "200"
    /\ response.has_result
    /\ response.result \notin {None, <<>>}
    /\ ParseHex(response.result).valid

\* C13: exec_status.healthy is true exactly when the execution endpoint
\* answered 200 with a result that is a non-empty hexadecimal string;
\* block_number is then that string read in base 16 (0x64 gives 100, 0x1A
\* gives 26) and None otherwise. A result that is null or empty leaves the
\* endpoint unhealthy with the status it sent, a result that is not
\* hexadecimal leaves it unhealthy with http_code "unreachable".
C13_HealthyExactlyOnHexResult ==
    Reported =>
        /\ rpc.exec_status.healthy = UsableResult(rpc.exec_response)
        /\ rpc.exec_status.healthy
              => rpc.exec_status.block_number
                    = Some(ParseHex(rpc.exec_response.result).value)
        /\ ~rpc.exec_status.healthy => rpc.exec_status.block_number = NoInt
        /\ rpc.exec_response.result = Hex_0x64
              => rpc.exec_status.healthy /\ rpc.exec_status.block_number = Some(100)
        /\ rpc.exec_response.result = Hex_0x1A
              => rpc.exec_status.block_number = Some(26)
        /\ rpc.exec_response.result = Hex_0x
              => rpc.exec_status.http_code = "unreachable"
        /\ (rpc.exec_response.status = "200" /\ rpc.exec_response.result = None)
              => rpc.exec_status.http_code = "200"

\* the report of an endpoint that answered 200 with result 0x64
C13_Witness ==
    /\ Reported
    /\ rpc.exec_response.result = Hex_0x64
    /\ rpc.exec_status = [healthy |-> TRUE, block_number |-> Some(100), http_code |-> "200"]

\* C14: once the execution check is over, exec_status is never changed: at
\* every later point of the call and in the report it is the value the
\* execution check computed from the answer of the execution endpoint,
\* whatever the beacon answers and whatever the blob probes return.
C14_ExecStatusKept ==
    rpc.pc \in {"version", "head", "blobs", "done"} =>
        /\ rpc.exec_status = rpc.exec_alone
        /\ rpc.exec_alone = ExecCheck(IdleRpc.exec_status, rpc.exec_response)

\* a report with a healthy execution endpoint, a beacon that answered, and
\* blob probes that met errors
C14_Witness ==
    /\ Reported
    /\ rpc.exec_status.healthy
    /\ rpc.beacon_rpc
    /\ rpc.errors > 0
    /\ rpc.seen.raised > 0

\* the blob statistics of the report come from a sampling
Sampled == "slots_checked" \in DOMAIN rpc.blob_status

\* C15: in every report the blob statistics are those of a sampling (with
\* slots_checked = 10) exactly when beacon_status.head_slot is set; otherwise
\* blob_status is still success_rate 0, total_blobs 0, errors 0.
C15_BlobStatsOnlyWithHeadSlot ==
    Reported =>
        /\ Sampled = (rpc.beacon_status.head_slot # NoInt)
        /\ Sampled => rpc.blob_status.slots_checked = 10
        /\ ~Sampled => rpc.blob_status = [success_rate |-> 0, total_blobs |-> 0, errors |-> 0]
        /\ ~rpc.beacon_rpc => ~Sampled

\* a report with a head slot and sampled statistics
C15_Witness ==
    /\ Reported
    /\ rpc.beacon_status.head_slot = Some(12)
    /\ Sampled
    /\ rpc.blob_status.total_blobs > 0

\* the answer carries the field the check reads from it
Answered(response) ==
    response.status = "200" /\ response.has_result /\ response.result \notin {None, <<>>}

\* C16 as stated: with a beacon endpoint, beacon_status.healthy is true in
\* the report exactly when the version endpoint answered 200 with a version
\* and the head-header endpoint answered 200 with a head slot in it.
C16_Original ==
    (Reported /\ rpc.beacon_rpc) =>
        rpc.beacon_status.healthy
           = (Answered(rpc.version_response) /\ Answered(rpc.head_response))

\* C16: with a beacon endpoint, beacon_status.healthy is true in the report
\* exactly when the version endpoint answered 200 with a version, the
\* head-header endpoint answered 200 with a head slot, and the slot is a
\* string of decimal digits; a missing field, another status, a failed
\* request or a slot that is no decimal number leaves healthy false; the head-header request is made only after a
\* version was obtained, and the blob probes only after a head slot.
C16_BeaconHealthy ==
    /\ (Reported /\ rpc.beacon_rpc) =>
          rpc.beacon_status.healthy
             = /\ Answered(rpc.version_response)
               /\ Answered(rpc.head_response)
               /\ ParseDecimal(rpc.head_response.result).valid
    /\ (Reported /\ ~rpc.beacon_rpc) => ~rpc.beacon_status.healthy
    /\ rpc.pc = "head" => Answered(rpc.version_response) /\ rpc.beacon_status.healthy
    /\ rpc.head_response.status # "none" => Answered(rpc.version_response)
    /\ rpc.pc = "blobs" => Answered(rpc.head_response)

\* a report where the version was obtained and the head header had no slot
C16_Witness ==
    /\ Reported
    /\ Answered(rpc.version_response)
    /\ rpc.head_response.status = "200"
    /\ ~rpc.head_response.has_result
    /\ ~rpc.beacon_status.healthy

RECURSIVE SumLists(_, _)
\* the number of answers with a list of 1..n blobs
SumLists(lists, n) == IF n = 0 THEN 0 ELSE lists[n] + SumLists(lists, n - 1)

RECURSIVE SumBlobs(_, _)
\* the blobs in the lists of 1..n blobs
SumBlobs(lists, n) == IF n = 0 THEN 0 ELSE n * lists[n] + SumBlobs(lists, n - 1)

\* C17: the sampling for head slot h probes h, h-1, ..., one slot per turn
\* and 10 in all whatever the earlier answers were; slots_with_blobs is the
\* number of 200 answers with a non-empty list, total_blobs the sum of their
\* lengths, errors the number of answers with a status other than 200 and 404
\* plus the requests that raised; 404 and empty lists count in neither; so
\* 0 <= slots_with_blobs <= 10, slots_with_blobs + errors <= 10, and the
\* stored success_rate is slots_with_blobs * 10 percent (3 non-empty, 5 not
\* found, 2 status 500: 3 slots, 2 errors, rate 30).
C17_BlobSampling ==
    rpc.beacon_status.head_slot # NoInt =>
        LET h == rpc.beacon_status.head_slot[1]
            seen == rpc.seen
        IN  /\ Len(rpc.probed) = rpc.i
            /\ \A k \in 1..Len(rpc.probed) : rpc.probed[k] = h - (k - 1)
            /\ rpc.i = seen.lists[0] + SumLists(seen.lists, MaxBlobs)
                         + seen.notfound + seen.other + seen.raised
            /\ rpc.slots_with_blobs = SumLists(seen.lists, MaxBlobs)
            /\ rpc.total_blobs = SumBlobs(seen.lists, MaxBlobs)
            /\ rpc.errors = seen.other + seen.raised
            /\ rpc.slots_with_blobs >= 0 /\ rpc.slots_with_blobs <= 10
            /\ rpc.slots_with_blobs + rpc.errors <= 10
            /\ (rpc.pc = "blobs") = (rpc.i < 10)
            /\ Reported =>
                  /\ rpc.i = 10
                  /\ rpc.blob_status.slots_with_blobs = rpc.slots_with_blobs
                  /\ rpc.blob_status.total_blobs = rpc.total_blobs
                  /\ rpc.blob_status.errors = rpc.errors
                  /\ rpc.blob_status.slots_checked = 10
                  /\ rpc.blob_status.success_rate = Percent(rpc.slots_with_blobs * 10)
                  /\ (SumLists(seen.lists, MaxBlobs) = 3 /\ seen.notfound = 5
                        /\ seen.other = 2)
                       => /\ rpc.blob_status.slots_with_blobs = 3
                          /\ rpc.blob_status.errors = 2
                          /\ rpc.blob_status.success_rate = Percent(30)

\* the report of 3 non-empty lists, 5 answers 404 and 2 answers 500
C17_Witness ==
    /\ Reported
    /\ SumLists(rpc.seen.lists, MaxBlobs) = 3
    /\ rpc.seen.notfound = 5
    /\ rpc.seen.other = 2
    /\ rpc.blob_status.success_rate = Percent(30)
    /\ rpc.probed = <<12, 11, 10, 9, 8, 7, 6, 5, 4, 3>>

\* the classes of the blob classification
Classes == {"HEALTHY", "WARNING", "CRITICAL"}

\* C18: every success rate gets exactly one class: HEALTHY from 75.0 up,
\* WARNING from 25.0 up to but not including 75.0, CRITICAL below 25.0; so
\* 75.0 is HEALTHY, 74.9 WARNING, 25.0 WARNING and 24.9 CRITICAL, and each of
\* the rates 0, 10, ..., 100 has one class.
C18_Classification ==
    fmt.blob_status_text # "none" =>
        LET rate == fmt.success_rate
            text == fmt.blob_status_text
        IN  /\ text \in Classes
            /\ (text = "HEALTHY") = (rate >= 750)
            /\ (text = "WARNING") = (rate >= 250 /\ rate < 750)
            /\ (text = "CRITICAL") = (rate < 250)
            /\ rate = 750 => text = "HEALTHY"
            /\ rate = 749 => text = "WARNING"
            /\ rate = 250 => text = "WARNING"
            /\ rate = 249 => text = "CRITICAL"
            /\ rate \in {100 * k : k \in 0..10}
                  => text = (IF rate >= 800 THEN "HEALTHY"
                             ELSE IF rate >= 300 THEN "WARNING" ELSE "CRITICAL")

\* the rate 74.9 classified
C18_Witness == fmt.success_rate = 749 /\ fmt.blob_status_text = "WARNING"

\* C19: every call of check_rpc_health ends in a report with a message, and
\* the report has success true for every combination of answers and failures
\* of the execution endpoint, the beacon endpoints and the blob probes;
\* success is false only in a report whose formatting raised.
C19_SuccessUnlessEscaped ==
    /\ Reported => rpc.message # <<>> /\ rpc.success = ~rpc.escaped
    /\ (Reported /\ ~rpc.escaped) => rpc.success
    /\ ~Reported => ~rpc.success
    /\ rpc.escaped => Reported

\* the report of a call that reached neither the execution endpoint nor
\* the beacon endpoint
C19_Witness ==
    /\ Reported
    /\ rpc.exec_response.status = "raise"
    /\ rpc.version_response.status = "raise"
    /\ rpc.exec_status.http_code = "unreachable"
    /\ rpc.beacon_status.http_code = "unreachable"
    /\ rpc.success

(***************************************************************************)
(* get_sync_status: the result                                             *)
(***************************************************************************)
\* C20: in every result of get_sync_status, synced is true exactly when both
\* block numbers were resolved and are equal as numbers (100 and 0100 are
\* equal); synced is false whenever local or remote is None.
C20_SyncedIffBothEqual ==
    sync.pc = "done" =>
        LET r == sync.result
        IN  /\ r.synced = (r.local # NoInt /\ r.remote # NoInt
                             /\ r.local[1] = r.remote[1])
            /\ (r.local = NoInt \/ r.remote = NoInt) => ~r.synced
            /\ r.local = fetch_block_number(sync.local_response)
            /\ r.remote = fetch_block_number(sync.remote_response)
            /\ (sync.local_response.result = Block_0100
                  /\ sync.remote_response.result = Block_100) => r.synced
            /\ (sync.local_response.result = Block_50
                  /\ sync.remote_response.result = Block_100) => ~r.synced

\* a result with both sides at block 100
C20_Witness ==
    /\ sync.pc = "done"
    /\ sync.result = [synced |-> TRUE, local |-> Some(100), remote |-> Some(100)]

(***************************************************************************)
(* get_sync_status: the two fetches                                        *)
(***************************************************************************)
\* the fetch got no usable block number: no answer, a status other than
\* 200, no result.proven, or a number that int() cannot read
FetchFailed(response) ==
    \/ response.status # "200"
    \/ ~response.has_result
    \/ response.result = Hex_0x64

\* the number a usable answer carries
NumberSent(response) ==
    IF response.result = Block_0 THEN 0
    ELSE IF response.result = Block_50 THEN 50
    ELSE IF response.result = Block_99 THEN 99
    ELSE 100

\* C21: in every result of get_sync_status each side is None exactly when
\* its own fetch failed (timeout or client error, status other than 200,
\* malformed payload) and is otherwise the number its own answer carried,
\* whatever the other side answered; the call returns a result in each case.
C21_SidesIndependent ==
    sync.pc = "done" =>
        /\ sync.result # <<>>
        /\ sync.result.local
              = (IF FetchFailed(sync.local_response) THEN NoInt
                 ELSE Some(NumberSent(sync.local_response)))
        /\ sync.result.remote
              = (IF FetchFailed(sync.remote_response) THEN NoInt
                 ELSE Some(NumberSent(sync.remote_response)))

\* the local fetch timed out and the remote block is reported
C21_Witness ==
    /\ sync.pc = "done"
    /\ sync.local_response.status = "raise"
    /\ sync.result.local = NoInt
    /\ sync.result.remote = Some(100)

\* C22: both fetches are in flight from the call on, no result exists while
\* one of them is in flight, the call has returned as soon as both ended,
\* and the result is determined by the two answers alone, not by which of
\* them came first.
C22_WaitsForBoth ==
    /\ sync.pc = "gather" =>
          /\ sync.result = <<>>
          /\ sync.local_response = NoResponse \/ sync.remote_response = NoResponse
          /\ (sync.first = "none")
                = (sync.local_response = NoResponse /\ sync.remote_response = NoResponse)
    /\ sync.pc = "done" =>
          /\ sync.local_response # NoResponse
          /\ sync.remote_response # NoResponse
          /\ sync.first \in {"local", "remote"}
          /\ sync.result
                = [synced |-> Synced(fetch_block_number(sync.local_response),
                                     fetch_block_number(sync.remote_response)),
                   local |-> fetch_block_number(sync.local_response),
                   remote |-> fetch_block_number(sync.remote_response)]

\* a result of a call whose remote fetch ended first
C22_Witness ==
    /\ sync.pc = "done"
    /\ sync.first = "remote"
    /\ sync.result = [synced |-> FALSE, local |-> Some(50), remote |-> Some(100)]

HasVersionNumber(output) ==
    output \in {Out_0_87_0, Out_v0_90_0, Out_two, Out_four}

\* the first three-component number of such an output
FirstNumber(output) ==
    IF output = Out_0_87_0 THEN V_0_87_0
    ELSE IF output = Out_v0_90_0 THEN V_0_90_0
    ELSE IF output = Out_two THEN V_0_87_0
    ELSE <<"1", "2", ".", "3", ".", "4">>

\* C24: get_node_current_version probes the candidates in the order of its
\* list and stops at the first that resolves (the bare name aztec is probed
\* last); on that executable it tries -V, --version, -v in this order and
\* stops at the first output with a three-component number, which it returns
\* (the leftmost one of stdout+stderr); it returns None when no candidate
\* resolves or no flag gives such an output, and each call ends in a return.
C24_FirstMatchWins ==
    LET n == Len(ver.probed)
        m == Len(ver.flags_tried)
    IN  /\ \A i \in 1..n : ver.probed[i] = i
        /\ n <= 5
        /\ \A i \in 1..m : ver.flags_tried[i] = flags[i]
        /\ m <= 3 /\ Len(ver.outputs) = m
        /\ \A i \in 1..(m - 1) : ~HasVersionNumber(ver.outputs[i])
        /\ ver.aztec_cmd # 0 => ver.aztec_cmd = n
        /\ m > 0 => ver.aztec_cmd # 0
        /\ ver.pc = "flags" => ver.aztec_cmd = n /\ m < 3
        /\ ver.pc = "paths" => ver.aztec_cmd = 0 /\ m = 0
        /\ ver.pc # "done" => ver.result = None
        /\ ver.pc = "done" =>
              /\ ver.aztec_cmd = 0 => n = 5 /\ m = 0 /\ ver.result = None
              /\ ver.aztec_cmd # 0 => m >= 1
              /\ (m >= 1 /\ HasVersionNumber(ver.outputs[m]))
                    => ver.result = FirstNumber(ver.outputs[m])
              /\ (m >= 1 /\ ~HasVersionNumber(ver.outputs[m]))
                    => m = 3 /\ ver.result = None

\* the bare name resolved and the third flag printed the version
C24_Witness ==
    /\ ver.pc = "done"
    /\ ver.aztec_cmd \in 1..Len(paths)
    /\ paths[ver.aztec_cmd] = "aztec"
    /\ ver.probed = <<1, 2, 3, 4, 5>>
    /\ ver.flags_tried = <<"-V", "--version", "-v">>
    /\ ver.outputs = <<Raised, Out_usage, Out_two>>
    /\ ver.result = V_0_87_0

(***************************************************************************)
(* AztecMonitor.start_monitoring, stop_monitoring and _monitor_loop        *)
(*                                                                         *)
(* mon.threads lists every thread start_monitoring has created, each at a  *)
(* position of _monitor_loop: "test" (about to evaluate the while          *)
(* condition), "check" (inside the try block), "sleep" (in asyncio.sleep   *)
(* with `sleep` seconds left) or "exited".  mon.caller is the thread that  *)
(* calls the two methods: "idle", or "joining" inside                      *)
(* monitor_thread.join(timeout=10) with `join` seconds left.  Time passes  *)
(* for the sleeps and the join together (Elapse).                          *)
(***************************************************************************)
\* threads the model lets start_monitoring create
MaxThreads == 3

\* join(timeout=10)
JoinTimeout == 10

\* the sleep of the except branch
ErrorSleep == 60

\* the smallest interval the input handler accepts
MinInterval == 60

DEFAULT_MONITOR_INTERVAL == 300

\* the numbers a user sends as the custom interval
IntervalTexts == {59, 300}

\* ValidatorService defines no check_miss_rate_alert: the attribute lookup
\* of line 125 raises AttributeError inside the try block
check_miss_rate_alert == "AttributeError"

start_monitoring(m, check_interval) ==
    IF m.monitoring_active
    THEN m
    ELSE [m EXCEPT !.monitoring_active = TRUE,
                   !.threads = Append(@, [pc |-> "test",
                                          check_interval |-> check_interval,
                                          sleep |-> 0]),
                   !.monitor_thread = Len(m.threads) + 1]

\* up to the join: the flag is lowered, and the caller waits for the thread
\* it started last, if any
stop_monitoring(m) ==
    LET off == [m EXCEPT !.monitoring_active = FALSE]
    IN  IF m.monitor_thread # 0
        THEN [off EXCEPT !.caller = "joining", !.join = JoinTimeout]
        ELSE off

\* room for one more thread when the call is going to create one
CanStart(m) == m.monitoring_active \/ Len(m.threads) < MaxThreads

\* start_monitoring called on its own (start_bot passes the default)
StartMonitoring(check_interval) ==
    /\ mon.caller = "idle"
    /\ CanStart(mon)
    /\ mon' = start_monitoring(mon, check_interval)
    /\ UNCHANGED <<node_vars, rpc, fmt, sync, ver, chat>>

\* stop_monitoring called on its own (stop_bot)
StopMonitoring ==
    /\ mon.caller = "idle"
    /\ mon' = stop_monitoring(mon)
    /\ UNCHANGED <<node_vars, rpc, fmt, sync, ver, chat>>

\* _handle_monitor_interval_input from the interval test on
MonitorIntervalInput(interval) ==
    /\ mon.caller = "idle"
    /\ Len(mon.threads) < MaxThreads
    /\ mon' = IF interval < MinInterval
              THEN mon
              ELSE IF mon.monitoring_active
                   THEN [stop_monitoring(mon) EXCEPT !.then_start = interval]
                   ELSE start_monitoring(mon, interval)
    /\ UNCHANGED <<node_vars, rpc, fmt, sync, ver, chat>>

\* join returns: the thread has ended or the timeout has run out; the
\* interval handler goes on to its start_monitoring call
JoinReturns ==
    /\ mon.caller = "joining"
    /\ \/ mon.threads[mon.monitor_thread].pc = "exited"
       \/ mon.join = 0
    /\ LET back == [mon EXCEPT !.caller = "idle", !.join = 0, !.then_start = 0]
       IN  mon' = IF mon.then_start # 0
                  THEN start_monitoring(back, mon.then_start)
                  ELSE back
    /\ UNCHANGED <<node_vars, rpc, fmt, sync, ver, chat>>

\* the loop goes on whatever the flag says
LoopTestIgnoresFlag(th) ==
    /\ th \in 1..Len(mon.threads)
    /\ mon.threads[th].pc = "test"
    /\ mon' = [mon EXCEPT !.threads[th].pc = "check"]
    /\ UNCHANGED <<node_vars, rpc, fmt, sync, ver, chat>>

\* while self.monitoring_active
LoopTest(th) ==
    /\ th \in 1..Len(mon.threads)
    /\ mon.threads[th].pc = "test"
    /\ mon' = [mon EXCEPT !.threads[th].pc =
                  IF mon.monitoring_active THEN "check" ELSE "exited"]
    /\ UNCHANGED <<node_vars, rpc, fmt, sync, ver, chat>>

\* the try block and the sleep it ends in
Iterate(th) ==
    /\ th \in 1..Len(mon.threads)
    /\ mon.threads[th].pc = "check"
    /\ mon' = [mon EXCEPT !.threads[th].pc = "sleep",
                          !.threads[th].sleep =
                              IF check_miss_rate_alert = "AttributeError"
                              THEN ErrorSleep
                              ELSE mon.threads[th].check_interval]
    /\ UNCHANGED <<node_vars, rpc, fmt, sync, ver, chat>>

\* asyncio.sleep returns
Wake(th) ==
    /\ th \in 1..Len(mon.threads)
    /\ mon.threads[th].pc = "sleep"
    /\ mon.threads[th].sleep = 0
    /\ mon' = [mon EXCEPT !.threads[th].pc = "test"]
    /\ UNCHANGED <<node_vars, rpc, fmt, sync, ver, chat>>

\* the waits that have time left
Waits(m) ==
    {m.threads[th].sleep : th \in {i \in 1..Len(m.threads) :
                                      /\ m.threads[i].pc = "sleep"
                                      /\ m.threads[i].sleep > 0}}
      \cup (IF m.caller = "joining" /\ m.join > 0 THEN {m.join} ELSE {})

\* time passes up to the end of the shortest wait; the statements between
\* two sleeps of a loop take no time, and neither does the return of a join
\* that has run out
Elapse ==
    /\ Waits(mon) # {}
    /\ ~(mon.caller = "joining" /\ mon.join = 0)
    /\ \A th \in 1..Len(mon.threads) :
          \/ mon.threads[th].pc = "exited"
          \/ mon.threads[th].pc = "sleep" /\ mon.threads[th].sleep > 0
    /\ LET d == CHOOSE w \in Waits(mon) : \A v \in Waits(mon) : w <= v
       IN  mon' = [mon EXCEPT
                     !.join = IF mon.caller = "joining" /\ @ > 0 THEN @ - d ELSE @,
                     !.threads = [th \in 1..Len(mon.threads) |->
                                     IF @[th].pc = "sleep" /\ @[th].sleep > 0
                                     THEN [@[th] EXCEPT !.sleep = @ - d]
                                     ELSE @[th]]]
    /\ UNCHANGED <<node_vars, rpc, fmt, sync, ver, chat>>

NextMonitor ==
    \/ StartMonitoring(DEFAULT_MONITOR_INTERVAL)
    \/ StopMonitoring
    \/ \E interval \in IntervalTexts : MonitorIntervalInput(interval)
    \/ JoinReturns
    \/ \E th \in 1..MaxThreads : LoopTest(th)
    \/ \E th \in 1..MaxThreads : Iterate(th)
    \/ \E th \in 1..MaxThreads : Wake(th)
    \/ Elapse

SpecMonitor == Init /\ [][NextMonitor]_vars

\* the loop threads and the joining caller get to run, and time passes
SpecMonitorFair ==
    /\ SpecMonitor
    /\ \A th \in 1..MaxThreads :
          /\ WF_vars(LoopTest(th))
          /\ WF_vars(Iterate(th))
          /\ WF_vars(Wake(th))
    /\ WF_vars(Elapse)
    /\ WF_vars(JoinReturns)

(***************************************************************************)
(* The Telegram entry points: commands, callback queries, text messages    *)
(*                                                                         *)
(* chat.user_data holds each user's awaiting_* flags, chat.prompt the      *)
(* prompt each user selected last, and chat.last the latest update: who    *)
(* sent it, through which entry point, which input handler took it, which  *)
(* monitor operations it invoked and what was replied.                     *)
(***************************************************************************)
check_authorization(user_id) == user_id \in AUTHORIZED_USERS

Commands == {"start", "help", "status"}

\* the monitor operations behind each command
CommandCalls(name) ==
    CASE name = "start"  -> {"get_service_status", "get_node_current_version"}
      [] name = "help"   -> {}
      [] name = "status" -> {"get_service_status", "get_system_resources",
                             "get_node_current_version"}

\* start_command, help_command, status_command
Command(user_id, name) ==
    /\ chat' = [chat EXCEPT !.last =
                  IF ~check_authorization(user_id)
                  THEN [user |-> user_id, entry |-> name, handler |-> "none",
                        calls |-> {}, reply |-> "unauthorized"]
                  ELSE [user |-> user_id, entry |-> name, handler |-> "none",
                        calls |-> CommandCalls(name), reply |-> name]]
    /\ UNCHANGED <<node_vars, rpc, fmt, sync, ver, mon>>

\* the callback data of the buttons pressed
CallbackData ==
    {"main_menu", "status", "sync_custom", "rpc_check", "port_check",
     "monitor_custom"}

\* the flag each prompt raises
FlagOf(data) ==
    CASE data = "sync_custom" -> "awaiting_port"
      [] data = "rpc_check"   -> "awaiting_rpc_check"
      [] data = "port_check"  -> "awaiting_port_check"

Prompts == {"sync_custom", "rpc_check", "port_check"}

\* the routing of button_handler and handle_callback for an authorized user
Route(c, user_id, data) ==
    IF data \in Prompts
    THEN [c EXCEPT !.user_data[user_id][FlagOf(data)] = TRUE,
                   !.prompt[user_id] = data,
                   !.last = [user |-> user_id, entry |-> "button",
                             handler |-> "none", calls |-> {},
                             reply |-> "prompt"]]
    ELSE [c EXCEPT !.last = [user |-> user_id, entry |-> "button",
                             handler |-> "none",
                             calls |-> IF data = "status"
                                       THEN {"get_service_status"} ELSE {},
                             reply |-> IF data = "main_menu" THEN "menu"
                                       ELSE IF data = "status" THEN "status"
                                       ELSE "pending"]]

\* the routing runs for every user
ButtonPressNoCheck(user_id, data) ==
    /\ chat' = Route(chat, user_id, data)
    /\ UNCHANGED <<node_vars, rpc, fmt, sync, ver, mon>>

\* MenuHandlers.button_handler
ButtonPress(user_id, data) ==
    /\ chat' = IF ~check_authorization(user_id)
               THEN [chat EXCEPT !.last =
                       [user |-> user_id, entry |-> "button", handler |-> "none",
                        calls |-> {}, reply |-> "unauthorized"]]
               ELSE Route(chat, user_id, data)
    /\ UNCHANGED <<node_vars, rpc, fmt, sync, ver, mon>>

\* str.isdigit() on the texts of the model
IsDigit(text) == Len(text) > 0 /\ \A i \in 1..Len(text) : text[i] \in Digits

\* what follows the last ':' (rsplit(":", 1)[1]), the whole text without one
PortPart(text) ==
    LET colons == {i \in 1..Len(text) : text[i] = ":"}
    IN  IF colons = {} THEN text
        ELSE SubSeq(text, (CHOOSE i \in colons : \A j \in colons : j <= i) + 1,
                    Len(text))

\* what precedes the first ',' (split(",", 1)[0]), the whole text without one
ExecPart(text) ==
    LET commas == {i \in 1..Len(text) : text[i] = ","}
    IN  IF commas = {} THEN text
        ELSE SubSeq(text, 1, (CHOOSE i \in commas : \A j \in commas : i <= j) - 1)

Http == <<"h", "t", "t", "p", ":", "/", "/">>

Https == <<"h", "t", "t", "p", "s", ":", "/", "/">>

\* _handle_port_input: the flag stays up on a text that is not a number
PortInput(c, user_id, text) ==
    IF ~IsDigit(text)
    THEN [c EXCEPT !.last = [user |-> user_id, entry |-> "text",
                             handler |-> "_handle_port_input", calls |-> {},
                             reply |-> "invalid_port"]]
    ELSE [c EXCEPT !.user_data[user_id].awaiting_port = FALSE,
                   !.last = [user |-> user_id, entry |-> "text",
                             handler |-> "_handle_port_input",
                             calls |-> {"get_sync_status"},
                             reply |-> "sync_status"]]

\* _handle_monitor_interval_input, as far as the chat sees it
IntervalInput(c, user_id, text) ==
    LET accepted == IsDigit(text) /\ NumVal(text) >= MinInterval
    IN  [c EXCEPT !.user_data[user_id].awaiting_monitor_interval = FALSE,
                  !.last = [user |-> user_id, entry |-> "text",
                            handler |-> "_handle_monitor_interval_input",
                            calls |-> IF accepted THEN {"start_monitoring"} ELSE {},
                            reply |-> IF accepted THEN "monitoring_started"
                                      ELSE IF IsDigit(text) THEN "minimum_interval"
                                      ELSE "invalid_interval"]]

\* _handle_rpc_input
RpcInput(c, user_id, text) ==
    LET exec_rpc == ExecPart(text)
        ok == IsPrefix(Http, exec_rpc) \/ IsPrefix(Https, exec_rpc)
    IN  [c EXCEPT !.user_data[user_id].awaiting_rpc_check = FALSE,
                  !.last = [user |-> user_id, entry |-> "text",
                            handler |-> "_handle_rpc_input",
                            calls |-> IF ok THEN {"check_rpc_health"} ELSE {},
                            reply |-> IF ok THEN "rpc_health" ELSE "rpc_must_be_http"]]

\* _handle_port_check_input
PortCheckInput(c, user_id, text) ==
    LET port_text == PortPart(text)
        ok == IsDigit(port_text)
        in_range == ok /\ 1 <= NumVal(port_text) /\ NumVal(port_text) <= 65535
    IN  [c EXCEPT !.user_data[user_id].awaiting_port_check = FALSE,
                  !.last = [user |-> user_id, entry |-> "text",
                            handler |-> "_handle_port_check_input",
                            calls |-> IF in_range THEN {"check_port_open"} ELSE {},
                            reply |-> IF in_range THEN "port_result"
                                      ELSE IF ok THEN "port_range"
                                      ELSE "invalid_input"]]

\* the texts a user sends: "80", "0", "http://x", "x"
Texts ==
    {<<"8", "0">>, <<"0">>, <<"h", "t", "t", "p", ":", "/", "/", "x">>, <<"x">>}

\* BotHandlers.handle_user_input
TextMessage(user_id, text) ==
    /\ chat' =
         IF ~check_authorization(user_id)
         THEN [chat EXCEPT !.last =
                 [user |-> user_id, entry |-> "text", handler |-> "none",
                  calls |-> {}, reply |-> "unauthorized"]]
         ELSE IF chat.user_data[user_id].awaiting_port
              THEN PortInput(chat, user_id, text)
         ELSE IF chat.user_data[user_id].awaiting_monitor_interval
              THEN IntervalInput(chat, user_id, text)
         ELSE IF chat.user_data[user_id].awaiting_rpc_check
              THEN RpcInput(chat, user_id, text)
         ELSE IF chat.user_data[user_id].awaiting_port_check
              THEN PortCheckInput(chat, user_id, text)
         ELSE [chat EXCEPT !.last =
                 [user |-> user_id, entry |-> "text", handler |-> "none",
                  calls |-> {}, reply |-> "use_menu"]]
    /\ UNCHANGED <<node_vars, rpc, fmt, sync, ver, mon>>

NextChat ==
    \/ \E user_id \in Users, name \in Commands : Command(user_id, name)
    \/ \E user_id \in Users, data \in CallbackData : ButtonPress(user_id, data)
    \/ \E user_id \in Users, text \in Texts : TextMessage(user_id, text)

SpecChat == Init /\ [][NextChat]_vars

(***************************************************************************)
(* fetch_available_versions: overlapping calls                             *)
(***************************************************************************)
\* the other task
Other(t) == CHOOSE o \in Tasks : o # t

\* C25: a call of fetch_available_versions that starts while another call is
\* in flight and the cache is stale or empty (or use_cache is off) goes to
\* the registry itself from page 1 with nothing accumulated, and leaves the
\* other call as it is; every registry answer advances only the call that
\* made the request, and a call that completes its fetch has made all its
\* page requests itself (one for the one-page registry, two for the two-page
\* registry).
C25_NoSingleFlight ==
    [][\A t \in Tasks :
          LET o == Other(t)
          IN  /\ (/\ CallStarts(t)
                  /\ fetch[o].pc = "request"
                  /\ ~(fetch'[t].use_cache /\ YoungerThanExpiry(version_cache, now)))
                    => /\ fetch'[t].pc = "request"
                       /\ fetch'[t].page = 1
                       /\ fetch'[t].requests = 0
                       /\ fetch'[t].all_versions = <<>>
                       /\ fetch'[o] = fetch[o]
              /\ (fetch[t].pc = "request" /\ fetch'[t] # fetch[t])
                    => /\ fetch'[t].requests = fetch[t].requests + 1
                       /\ fetch'[o] = fetch[o]
              /\ (fetch'[t].pc = "done" /\ fetch'[t].outcome = "fetched"
                    /\ fetch'[t].fault = "none")
                    => fetch'[t].requests
                          = (IF fetch'[t].registry = "dups" THEN 2 ELSE 1)]_vars

\* both calls are in flight on the empty cache, each after its own first page
C25_Witness ==
    /\ version_cache = EmptyCache
    /\ \A t \in Tasks : /\ fetch[t].pc = "request"
                        /\ fetch[t].page = 2
                        /\ fetch[t].requests = 1
                        /\ fetch[t].use_cache

\* C28 as stated: when two remote fetches have both completed (every page
\* answered 200), the cache holds the list and the timestamp of the one that
\* started later.
C28_Claim ==
    \A t \in Tasks :
        LET o == Other(t)
        IN  (/\ fetch[t].pc = "done" /\ fetch[t].outcome = "fetched"
             /\ fetch[o].pc = "done" /\ fetch[o].outcome = "fetched"
             /\ fetch[t].fault = "none" /\ fetch[o].fault = "none"
             /\ fetch[t].current_time < fetch[o].current_time)
              => /\ version_cache.timestamp = fetch[o].current_time
                 /\ version_cache.versions = fetch[o].result

(***************************************************************************)
(* The monitor loop                                                        *)
(***************************************************************************)
\* thread th exists and is inside _monitor_loop
Alive(th) == th \in 1..Len(mon.threads) /\ mon.threads[th].pc # "exited"

\* thread th has left _monitor_loop
Exited(th) == th \in 1..Len(mon.threads) /\ mon.threads[th].pc = "exited"

\* C26 as stated: no thread is created while monitoring is active, and a
\* loop whose thread is no longer the monitor's thread (it was stopped and a
\* later start created another) never passes its while test again.
C26_Claim ==
    [][/\ mon.monitoring_active => Len(mon'.threads) = Len(mon.threads)
       /\ \A th \in 1..Len(mon.threads) :
             (th # mon.monitor_thread /\ mon.threads[th].pc = "test")
                => mon'.threads[th].pc # "check"]_vars

\* C27: a loop that is alive while monitoring_active is False ends unless
\* the flag is raised again; a loop sleeping while monitoring is active
\* reaches its next iteration unless the flag is lowered; the try block
\* always ends in a sleep (60 seconds after an exception), and a loop ends
\* only at its while test with the flag False.
C27_LoopEnds ==
    /\ \A th \in 1..MaxThreads :
          (Alive(th) /\ ~mon.monitoring_active)
             ~> (mon.monitoring_active \/ Exited(th))
    /\ \A th \in 1..MaxThreads :
          (Alive(th) /\ mon.threads[th].pc = "sleep" /\ mon.monitoring_active)
             ~> (~mon.monitoring_active
                   \/ (Alive(th) /\ mon.threads[th].pc = "check"))
    /\ [][\A th \in 1..Len(mon.threads) :
             /\ mon.threads[th].pc = "check"
                   => mon'.threads[th].pc \in {"check", "sleep"}
             /\ (mon.threads[th].pc = "check" /\ mon'.threads[th].pc = "sleep"
                   /\ check_miss_rate_alert = "AttributeError")
                   => mon'.threads[th].sleep = ErrorSleep
             /\ (mon.threads[th].pc # "exited" /\ mon'.threads[th].pc = "exited")
                   => (mon.threads[th].pc = "test" /\ ~mon.monitoring_active)]_vars

\* stop_monitoring has returned after its join ran out, and the loop it
\* stopped has since ended
C27_Witness ==
    /\ ~mon.monitoring_active
    /\ mon.caller = "idle"
    /\ Len(mon.threads) = 1
    /\ mon.threads[1].pc = "exited"

(***************************************************************************)
(* The awaiting flags and the authorization test                           *)
(***************************************************************************)
\* the awaiting_* flags that are set in one user's user_data
FlagsSet(d) == {k \in DOMAIN d : d[k]}

\* the input handler that belongs to a prompt
HandlerOf(data) ==
    CASE data = "sync_custom" -> "_handle_port_input"
      [] data = "rpc_check"   -> "_handle_rpc_input"
      [] data = "port_check"  -> "_handle_port_check_input"
      [] OTHER                -> "none"

\* C29 as stated: a text message that arrives while the user has a prompt
\* pending is taken by the input handler of the prompt the user selected
\* last, and exactly one awaiting_* flag is set when it arrives.
C29_Claim ==
    [][\A u \in Users :
          (/\ chat' # chat
           /\ chat'.last.entry = "text"
           /\ chat'.last.user = u
           /\ FlagsSet(chat.user_data[u]) # {})
            => /\ chat'.last.handler = HandlerOf(chat.prompt[u])
               /\ Cardinality(FlagsSet(chat.user_data[u])) = 1]_vars

\* C30: a user that is not in AUTHORIZED_USERS never has an awaiting_* flag
\* or a prompt, and an update of such a user, through any entry point, is
\* answered with the unauthorized message, reaches no input handler and
\* invokes no monitor operation.
C30_UnauthorizedDoesNothing ==
    /\ \A u \in Users \ AUTHORIZED_USERS :
          /\ chat.user_data[u] = NoFlags
          /\ chat.prompt[u] = "none"
    /\ (chat.last.user \in Users \ AUTHORIZED_USERS)
          => /\ chat.last.reply = "unauthorized"
             /\ chat.last.handler = "none"
             /\ chat.last.calls = {}

\* the unauthorized user has sent a text while the authorized user has a
\* prompt pending
C30_Witness ==
    /\ chat.last.user \notin AUTHORIZED_USERS
    /\ chat.last.entry = "text"
    /\ chat.last.reply = "unauthorized"
    /\ \E u \in AUTHORIZED_USERS : chat.user_data[u].awaiting_port
====
